---------------------------- MODULE Spec2Model ----------------------------
(***************************************************************************)
(* Model of the heuristic review engine of Jgam2/EthicsPoC                 *)
(* (src/utils/azure_ai.py, class AzureAIWrapper).                          *)
(*                                                                         *)
(* Texts are TLA+ strings and the Python string operations the engine      *)
(* uses (lower, strip, split, find, slicing, the `in` substring test,      *)
(* replace, join) are defined on them character by character, so that      *)
(* every marker test and keyword match of the code is computed here the    *)
(* way the code computes it.                                               *)
(***************************************************************************)
EXTENDS Integers, Sequences, FiniteSets, TLC

VARIABLES
    messages,     \* get_completion: the list of role-tagged message records
    retries,      \* get_completion: the retry counter of the while loop
    sleeps,       \* get_completion: the time.sleep() arguments so far, in tenths of a second
    pc,           \* "idle" | "loop" | "done": where the current call stands
    handler,      \* the function that produced `result` ("" before any)
    in_question,  \* the question argument handed to the handler
    in_name,      \* the doc_name argument handed to the handler
    in_content,   \* the doc_content argument handed to the handler
    in_response,  \* the response argument handed to the handler
    result,       \* the value returned (None before any)
    previous,     \* what the preceding call returned, when the caller repeats a call
                  \* with the same messages (None otherwise)
    called,       \* the agent method that ran ("" when none)
    in_data,      \* the structured argument handed to the agent method
    returned,     \* the value the agent method returned (None before any)
    session,      \* st.session_state: current_page, checklist_responses,
                  \* uploaded_documents
    shown         \* the st.success / st.info / st.warning / st.error notices put on
                  \* the page by the last button handler

vars == <<messages, retries, sleeps, pc, handler, in_question, in_name, in_content,
          in_response, result, previous, called, in_data, returned, session, shown>>

\* the variables of the agents and of the pages
appVars == <<called, in_data, returned, session, shown>>

None == [kind |-> "none"]

\* initialize_session_state on a new session: the first page, no responses and
\* no documents
NewSession ==
    [current_page |-> "Research Context", checklist_responses |-> <<>>,
     uploaded_documents |-> <<>>]

\* no agent method has run and no page has been used
AppAtRest ==
    /\ called = ""
    /\ in_data = <<>>
    /\ returned = None
    /\ session = NewSession
    /\ shown = <<>>

-----------------------------------------------------------------------------
(* Python string operations                                                *)

Min(a, b) == IF a < b THEN a ELSE b
Max(a, b) == IF a > b THEN a ELSE b

\* s[i] for a 1-based position, as a one-character string
CharAt(s, i) == SubSeq(s, i, i)

UpperToLower ==
    ("A" :> "a") @@ ("B" :> "b") @@ ("C" :> "c") @@ ("D" :> "d") @@ ("E" :> "e") @@
    ("F" :> "f") @@ ("G" :> "g") @@ ("H" :> "h") @@ ("I" :> "i") @@ ("J" :> "j") @@
    ("K" :> "k") @@ ("L" :> "l") @@ ("M" :> "m") @@ ("N" :> "n") @@ ("O" :> "o") @@
    ("P" :> "p") @@ ("Q" :> "q") @@ ("R" :> "r") @@ ("S" :> "s") @@ ("T" :> "t") @@
    ("U" :> "u") @@ ("V" :> "v") @@ ("W" :> "w") @@ ("X" :> "x") @@ ("Y" :> "y") @@
    ("Z" :> "z")

LowerChar(c) == IF c \in DOMAIN UpperToLower THEN UpperToLower[c] ELSE c

\* Character-wise maps split the string in halves, which keeps the depth of the
\* evaluation logarithmic in its length.  The string operators bind their
\* argument to one value (str) before they look at its characters.
Half(s) == Len(s) \div 2

\* str.lower()
RECURSIVE Lower(_)
Lower(s) ==
    CHOOSE lowered \in
        {IF Len(str) = 0 THEN ""
         ELSE IF Len(str) = 1 THEN LowerChar(str)
         ELSE Lower(SubSeq(str, 1, Half(str))) \o Lower(SubSeq(str, Half(str) + 1, Len(str)))
         : str \in {s}} : TRUE

LowerToUpper ==
    ("a" :> "A") @@ ("b" :> "B") @@ ("c" :> "C") @@ ("d" :> "D") @@ ("e" :> "E") @@
    ("f" :> "F") @@ ("g" :> "G") @@ ("h" :> "H") @@ ("i" :> "I") @@ ("j" :> "J") @@
    ("k" :> "K") @@ ("l" :> "L") @@ ("m" :> "M") @@ ("n" :> "N") @@ ("o" :> "O") @@
    ("p" :> "P") @@ ("q" :> "Q") @@ ("r" :> "R") @@ ("s" :> "S") @@ ("t" :> "T") @@
    ("u" :> "U") @@ ("v" :> "V") @@ ("w" :> "W") @@ ("x" :> "X") @@ ("y" :> "Y") @@
    ("z" :> "Z")

UpperChar(c) == IF c \in DOMAIN LowerToUpper THEN LowerToUpper[c] ELSE c

\* str.upper()
RECURSIVE Upper(_)
Upper(s) ==
    CHOOSE raised \in
        {IF Len(str) = 0 THEN ""
         ELSE IF Len(str) = 1 THEN UpperChar(str)
         ELSE Upper(SubSeq(str, 1, Half(str))) \o Upper(SubSeq(str, Half(str) + 1, Len(str)))
         : str \in {s}} : TRUE

\* `sub in s`
Contains(s, sub) ==
    \E str \in {s} :
        \E i \in 1..(Len(str) - Len(sub) + 1) : SubSeq(str, i, i + Len(sub) - 1) = sub

\* s.find(sub): the lowest 0-based index of sub in s, -1 when there is none
Find(s, sub) ==
    CHOOSE found \in
        {IF hits = {} THEN -1 ELSE (CHOOSE i \in hits : \A j \in hits : i <= j) - 1
         : hits \in {{i \in 1..(Len(str) - Len(sub) + 1) :
                         SubSeq(str, i, i + Len(sub) - 1) = sub} : str \in {s}}} : TRUE

\* s.rfind(sub): the highest 0-based index of sub in s, -1 when there is none
RFind(s, sub) ==
    CHOOSE found \in
        {IF hits = {} THEN -1 ELSE (CHOOSE i \in hits : \A j \in hits : i >= j) - 1
         : hits \in {{i \in 1..(Len(str) - Len(sub) + 1) :
                         SubSeq(str, i, i + Len(sub) - 1) = sub} : str \in {s}}} : TRUE

\* s[a:b] with Python's clamping of 0-based bounds (a negative bound counts from the end)
SliceBound(s, i) == IF i < 0 THEN Max(0, i + Len(s)) ELSE Min(i, Len(s))
Slice(s, a, b) == SubSeq(s, SliceBound(s, a) + 1, SliceBound(s, b))

IsSpace(c) == c \in {" ", "\n", "\t", "\r"}

\* str.strip()
Strip(s) ==
    CHOOSE stripped \in
        {LET keep == {i \in 1..Len(str) : ~IsSpace(CharAt(str, i))}
         IN  IF keep = {} THEN ""
             ELSE SubSeq(str, CHOOSE i \in keep : \A j \in keep : i <= j,
                              CHOOSE i \in keep : \A j \in keep : i >= j)
         : str \in {s}} : TRUE

\* str.split(): the maximal runs of non-whitespace characters, in order
Split(s) ==
    LET ink(i) == i >= 1 /\ i <= Len(s) /\ ~IsSpace(CharAt(s, i))
        starts == {i \in 1..Len(s) : ink(i) /\ ~ink(i - 1)}
        endOf(i) == CHOOSE j \in i..Len(s) :
                        /\ ~ink(j + 1)
                        /\ \A k \in i..j : ink(k)
        nth(k) == CHOOSE i \in starts : Cardinality({j \in starts : j < i}) = k - 1
    IN  [k \in 1..Cardinality(starts) |-> SubSeq(s, nth(k), endOf(nth(k)))]

\* s.replace("_", " ")
RECURSIVE ReplaceUnderscore(_)
ReplaceUnderscore(s) ==
    IF Len(s) = 0 THEN ""
    ELSE IF Len(s) = 1 THEN (IF s = "_" THEN " " ELSE s)
    ELSE ReplaceUnderscore(SubSeq(s, 1, Half(s)))
            \o ReplaceUnderscore(SubSeq(s, Half(s) + 1, Len(s)))

\* ", ".join(seq)
RECURSIVE JoinComma(_)
JoinComma(seq) ==
    IF seq = <<>> THEN ""
    ELSE IF Len(seq) = 1 THEN seq[1]
    ELSE seq[1] \o ", " \o JoinComma(Tail(seq))

\* [f(x) for x in seq if x in keep], order preserved
RECURSIVE SelectSeqIn(_, _)
SelectSeqIn(seq, keep) ==
    IF seq = <<>> THEN <<>>
    ELSE (IF Head(seq) \in keep THEN <<Head(seq)>> ELSE <<>>) \o SelectSeqIn(Tail(seq), keep)

-----------------------------------------------------------------------------
(* The category/keyword tables of the typed scorers, in dictionary order   *)

Element(name, keywords) == [element |-> name, keywords |-> keywords]

ConsentFormElements == <<
    Element("research_purpose", <<"purpose", "aim", "objective", "goal">>),
    Element("procedures", <<"procedure", "what you will do", "what you'll do", "activities", "tasks">>),
    Element("risks", <<"risk", "discomfort", "inconvenience", "harm">>),
    Element("benefits", <<"benefit", "advantage", "gain">>),
    Element("confidentiality", <<"confidential", "privacy", "private", "anonymity", "anonymous">>),
    Element("voluntary", <<"voluntary", "choice", "choose", "option", "decide">>),
    Element("withdrawal", <<"withdraw", "stop", "quit", "leave", "discontinue">>),
    Element("contact", <<"contact", "question", "concern", "information", "email", "phone">>) >>

ResearchProtocolElements == <<
    Element("background", <<"background", "introduction", "literature", "review">>),
    Element("objectives", <<"objective", "aim", "goal", "purpose">>),
    Element("methodology", <<"method", "approach", "design", "procedure">>),
    Element("participants", <<"participant", "subject", "sample", "recruitment">>),
    Element("data_collection", <<"data collection", "gather", "collect", "measure">>),
    Element("data_analysis", <<"data analysis", "analyze", "statistical", "qualitative">>),
    Element("ethical_considerations", <<"ethic", "consent", "confidential", "privacy">>),
    Element("timeline", <<"timeline", "schedule", "duration", "period">>) >>

EthicsApplicationElements == <<
    Element("researcher_info", <<"researcher", "investigator", "applicant", "principal">>),
    Element("project_details", <<"project", "title", "summary", "overview">>),
    Element("methodology", <<"method", "approach", "design", "procedure">>),
    Element("participants", <<"participant", "subject", "sample", "recruitment">>),
    Element("ethical_considerations", <<"ethic", "consideration", "issue", "concern">>),
    Element("risk_assessment", <<"risk", "harm", "mitigation", "minimize">>),
    Element("data_management", <<"data", "storage", "security", "confidentiality">>),
    Element("consent_procedures", <<"consent", "inform", "voluntary", "withdraw">>),
    Element("declarations", <<"declare", "confirm", "certify", "statement">>) >>

CVElements == <<
    Element("education", <<"education", "degree", "university", "college", "school">>),
    Element("experience", <<"experience", "work", "job", "position", "role">>),
    Element("skills", <<"skill", "competence", "ability", "proficiency">>),
    Element("research", <<"research", "study", "investigation", "project">>),
    Element("publications", <<"publication", "paper", "article", "journal">>),
    Element("ethics_training", <<"ethics", "IRB", "ethical", "compliance">>) >>

SurveyElements == <<
    Element("introduction", <<"introduction", "purpose", "about", "overview">>),
    Element("instructions", <<"instruction", "direction", "guide", "how to">>),
    Element("questions", <<"question", "ask", "respond", "answer">>),
    Element("response_options", <<"option", "choice", "select", "scale">>),
    Element("sensitive_questions", <<"sensitive", "personal", "private", "confidential">>),
    Element("data_usage", <<"data", "information", "use", "purpose">>),
    Element("contact", <<"contact", "question", "concern", "information">>) >>

-----------------------------------------------------------------------------
(* The steps every typed scorer repeats                                    *)

\* a category counted present only when every one of its keywords occurs
AllKeywordsIn(keywords, doc_lower) ==
    \A k \in 1..Len(keywords) : Contains(doc_lower, keywords[k])

\* any(keyword in doc_content.lower() for keyword in keywords): the keyword is
\* compared as written in the table, only the document is lower-cased
AnyKeywordIn(keywords, doc_lower) ==
    \E k \in 1..Len(keywords) : Contains(doc_lower, keywords[k])

\* the for loop over key_elements.items(): the names appended to present_elements
PresentElements(key_elements, doc_content) ==
    LET doc_lower == Lower(doc_content)
        names == [i \in 1..Len(key_elements) |-> key_elements[i].element]
    IN  SelectSeqIn(names, {key_elements[i].element : i \in
            {j \in 1..Len(key_elements) : AnyKeywordIn(key_elements[j].keywords, doc_lower)}})

\* the names appended to missing_elements by the else branch of the same loop
MissingElements(key_elements, doc_content) ==
    LET doc_lower == Lower(doc_content)
        names == [i \in 1..Len(key_elements) |-> key_elements[i].element]
    IN  SelectSeqIn(names, {key_elements[i].element : i \in
            {j \in 1..Len(key_elements) : ~AnyKeywordIn(key_elements[j].keywords, doc_lower)}})

\* int((len(present_elements) / len(key_elements)) * 100): the float product
\* truncated toward zero.  In IEEE double arithmetic this is the integer floor of
\* 100 * present / total for every total below 50 (the first pair on which the
\* two differ is 29 / 50).  ComplianceScoreRounded rounds half up instead.
ComplianceScoreRounded(present, total) == (200 * present + total) \div (2 * total)

ComplianceScore(present, total) == (100 * present) \div total

\* the typed thresholds with the generic scorer's 80 and 60 in their place
TypedStatusAt80And60(compliance_score) ==
    IF compliance_score >= 80 THEN "APPROVED"
    ELSE IF compliance_score >= 60 THEN "ANALYZING"
    ELSE "NEEDS_REVISION"

\* if compliance_score >= 90 ... elif compliance_score >= 70 ... else ...
TypedStatus(compliance_score) ==
    IF compliance_score >= 90 THEN "APPROVED"
    ELSE IF compliance_score >= 70 THEN "ANALYZING"
    ELSE "NEEDS_REVISION"

\* [e.replace("_", " ") for e in elements]
Readable(elements) == [i \in 1..Len(elements) |-> ReplaceUnderscore(elements[i])]

Verdict(status, analysis, missing, recommendations, score) ==
    [kind |-> "verdict", status |-> status, analysis |-> analysis,
     missing_elements |-> missing, recommendations |-> recommendations,
     compliance_score |-> score]

\* the analysis text of a typed scorer from its five fixed phrases
TypedAnalysis(opening, includes, missing_intro, closing, present, missing) ==
    opening
    \o (IF present # <<>> THEN includes \o JoinComma(Readable(present)) \o ". " ELSE "")
    \o (IF missing # <<>> THEN missing_intro \o JoinComma(Readable(missing)) \o ". " ELSE "")
    \o closing

\* recommendations built by a chain of `if "<element>" in missing_elements` tests
RecommendationsByElement(key_elements, texts, missing) ==
    LET gone == {missing[i] : i \in 1..Len(missing)}
        idx == SelectSeqIn([i \in 1..Len(key_elements) |-> i],
                           {i \in 1..Len(key_elements) : key_elements[i].element \in gone})
    IN  [i \in 1..Len(idx) |-> texts[idx[i]]]

-----------------------------------------------------------------------------
(* The typed scorers                                                       *)

_analyze_consent_form(doc_content) ==
    LET key_elements == ConsentFormElements
        present_elements == PresentElements(key_elements, doc_content)
        missing_elements == MissingElements(key_elements, doc_content)
        compliance_score == ComplianceScore(Len(present_elements), Len(key_elements))
        ok == compliance_score >= 70
    IN  Verdict(TypedStatus(compliance_score),
                TypedAnalysis(
                    "This consent form " \o (IF ok THEN "adequately" ELSE "inadequately")
                        \o " addresses the ethical requirements for informed consent. ",
                    "The form includes information about ",
                    "However, it is missing information about ",
                    "Overall, the document " \o (IF ok THEN "meets" ELSE "does not meet")
                        \o " the basic requirements for an informed consent form.",
                    present_elements, missing_elements),
                Readable(missing_elements),
                [i \in 1..Len(missing_elements) |->
                    "Add information about " \o ReplaceUnderscore(missing_elements[i])],
                compliance_score)

_analyze_research_protocol(doc_content) ==
    LET key_elements == ResearchProtocolElements
        present_elements == PresentElements(key_elements, doc_content)
        missing_elements == MissingElements(key_elements, doc_content)
        compliance_score == ComplianceScore(Len(present_elements), Len(key_elements))
        ok == compliance_score >= 70
    IN  Verdict(TypedStatus(compliance_score),
                TypedAnalysis(
                    "This research protocol " \o (IF ok THEN "adequately" ELSE "inadequately")
                        \o " addresses the key components required. ",
                    "The protocol includes information about ",
                    "However, it is missing information about ",
                    "Overall, the document " \o (IF ok THEN "meets" ELSE "does not meet")
                        \o " the basic requirements for a research protocol.",
                    present_elements, missing_elements),
                Readable(missing_elements),
                [i \in 1..Len(missing_elements) |->
                    "Add a section on " \o ReplaceUnderscore(missing_elements[i])],
                compliance_score)

_analyze_ethics_application_form(doc_content) ==
    LET key_elements == EthicsApplicationElements
        present_elements == PresentElements(key_elements, doc_content)
        missing_elements == MissingElements(key_elements, doc_content)
        compliance_score == ComplianceScore(Len(present_elements), Len(key_elements))
        ok == compliance_score >= 70
    IN  Verdict(TypedStatus(compliance_score),
                TypedAnalysis(
                    "This ethics committee application form "
                        \o (IF ok THEN "adequately" ELSE "inadequately")
                        \o " addresses the required information. ",
                    "The form includes information about ",
                    "However, it is missing information about ",
                    "Overall, the document " \o (IF ok THEN "meets" ELSE "does not meet")
                        \o " the basic requirements for an ethics committee application form.",
                    present_elements, missing_elements),
                Readable(missing_elements),
                [i \in 1..Len(missing_elements) |->
                    "Complete the " \o ReplaceUnderscore(missing_elements[i]) \o " section"],
                compliance_score)

CVRecommendations == <<
    "Add educational qualifications relevant to the research",
    "Include relevant research or professional experience",
    "Add skills relevant to conducting this research",
    "Include previous research experience",
    "Add relevant publications if applicable",
    "Include information about ethics training or certifications" >>

_analyze_cv(doc_content) ==
    LET key_elements == CVElements
        present_elements == PresentElements(key_elements, doc_content)
        missing_elements == MissingElements(key_elements, doc_content)
        compliance_score == ComplianceScore(Len(present_elements), Len(key_elements))
        ok == compliance_score >= 70
    IN  Verdict(TypedStatus(compliance_score),
                TypedAnalysis(
                    "This CV/Resume " \o (IF ok THEN "adequately" ELSE "inadequately")
                        \o " demonstrates the researcher's qualifications. ",
                    "The document includes information about ",
                    "However, it is missing information about ",
                    "Overall, the document "
                        \o (IF ok THEN "demonstrates" ELSE "does not adequately demonstrate")
                        \o " the researcher's qualifications for this study.",
                    present_elements, missing_elements),
                Readable(missing_elements),
                RecommendationsByElement(key_elements, CVRecommendations, missing_elements),
                compliance_score)

SurveyRecommendations == <<
    "Add an introduction explaining the purpose of the survey",
    "Include clear instructions for completing the survey",
    "Ensure questions are clearly formulated",
    "Provide clear response options for each question",
    "Consider whether any questions are sensitive and provide appropriate warnings",
    "Include information about how the data will be used",
    "Add contact information for questions or concerns" >>

_analyze_survey(doc_content) ==
    LET key_elements == SurveyElements
        present_elements == PresentElements(key_elements, doc_content)
        missing_elements == MissingElements(key_elements, doc_content)
        compliance_score == ComplianceScore(Len(present_elements), Len(key_elements))
        ok == compliance_score >= 70
    IN  Verdict(TypedStatus(compliance_score),
                TypedAnalysis(
                    "This survey/questionnaire " \o (IF ok THEN "adequately" ELSE "inadequately")
                        \o " addresses the key components required. ",
                    "The document includes ",
                    "However, it is missing ",
                    "Overall, the document " \o (IF ok THEN "meets" ELSE "does not meet")
                        \o " the basic requirements for a research survey/questionnaire.",
                    present_elements, missing_elements),
                Readable(missing_elements),
                RecommendationsByElement(key_elements, SurveyRecommendations, missing_elements),
                compliance_score)

-----------------------------------------------------------------------------
(* Document types, the relevance gate and the generic scorer               *)

\* the decision list with the "study protocol" test moved to the front
_determine_expected_document_type_study_first(question) ==
    LET question_lower == Lower(question)
    IN  IF Contains(question_lower, "study protocol") THEN "Study Protocol"
        ELSE IF Contains(question_lower, "consent") THEN "Consent Form"
        ELSE IF Contains(question_lower, "protocol") THEN "Research Protocol"
        ELSE IF Contains(question_lower, "ethics committee application")
                \/ Contains(question_lower, "ethics application")
                \/ Contains(question_lower, "application form")
        THEN "Ethics Committee Application Form"
        ELSE IF Contains(question_lower, "cv") \/ Contains(question_lower, "resume")
                \/ Contains(question_lower, "curriculum vitae")
        THEN "CV/Resume"
        ELSE IF Contains(question_lower, "survey") \/ Contains(question_lower, "questionnaire")
        THEN "Survey/Questionnaire"
        ELSE "Supporting Document"

_determine_expected_document_type(question) ==
    LET question_lower == Lower(question)
    IN  IF Contains(question_lower, "consent") \/ Contains(question_lower, "informed consent")
        THEN "Consent Form"
        ELSE IF Contains(question_lower, "protocol")
                \/ Contains(question_lower, "research protocol")
        THEN "Research Protocol"
        ELSE IF Contains(question_lower, "ethics committee application")
                \/ Contains(question_lower, "ethics application")
                \/ Contains(question_lower, "application form")
        THEN "Ethics Committee Application Form"
        ELSE IF Contains(question_lower, "cv") \/ Contains(question_lower, "resume")
                \/ Contains(question_lower, "curriculum vitae")
        THEN "CV/Resume"
        ELSE IF Contains(question_lower, "survey") \/ Contains(question_lower, "questionnaire")
        THEN "Survey/Questionnaire"
        ELSE IF Contains(question_lower, "study protocol")
        THEN "Study Protocol"
        ELSE "Supporting Document"

\* the inference with the content rules consulted before the name rules
_determine_actual_document_type_content_first(doc_name, doc_content) ==
    LET doc_name_lower == Lower(doc_name)
        doc_content_lower == Lower(doc_content)
    IN  IF Contains(doc_content_lower, "consent")
                /\ (Contains(doc_content_lower, "voluntary")
                    \/ Contains(doc_content_lower, "withdraw"))
        THEN "Consent Form"
        ELSE IF Contains(doc_content_lower, "protocol")
                /\ (Contains(doc_content_lower, "methodology")
                    \/ Contains(doc_content_lower, "procedure"))
        THEN "Research Protocol"
        ELSE IF Contains(doc_content_lower, "ethics committee")
                /\ Contains(doc_content_lower, "application")
        THEN "Ethics Committee Application Form"
        ELSE IF (Contains(doc_content_lower, "education")
                    \/ Contains(doc_content_lower, "experience"))
                /\ (Contains(doc_content_lower, "skills")
                    \/ Contains(doc_content_lower, "qualification"))
        THEN "CV/Resume"
        ELSE IF Contains(doc_content_lower, "question")
                /\ (Contains(doc_content_lower, "answer")
                    \/ Contains(doc_content_lower, "response"))
        THEN "Survey/Questionnaire"
        ELSE IF Contains(doc_name_lower, "consent")
        THEN "Consent Form"
        ELSE IF Contains(doc_name_lower, "protocol")
        THEN "Research Protocol"
        ELSE IF Contains(doc_name_lower, "ethics")
                /\ (Contains(doc_name_lower, "application")
                    \/ Contains(doc_name_lower, "committee"))
        THEN "Ethics Committee Application Form"
        ELSE IF Contains(doc_name_lower, "cv") \/ Contains(doc_name_lower, "resume")
                \/ Contains(doc_name_lower, "curriculum")
        THEN "CV/Resume"
        ELSE IF Contains(doc_name_lower, "survey") \/ Contains(doc_name_lower, "questionnaire")
        THEN "Survey/Questionnaire"
        ELSE "Supporting Document"

_determine_actual_document_type(doc_name, doc_content) ==
    LET doc_name_lower == Lower(doc_name)
        doc_content_lower == Lower(doc_content)
    IN  \* Check document name first
        IF Contains(doc_name_lower, "consent")
        THEN "Consent Form"
        ELSE IF Contains(doc_name_lower, "protocol")
        THEN "Research Protocol"
        ELSE IF Contains(doc_name_lower, "ethics")
                /\ (Contains(doc_name_lower, "application")
                    \/ Contains(doc_name_lower, "committee"))
        THEN "Ethics Committee Application Form"
        ELSE IF Contains(doc_name_lower, "cv") \/ Contains(doc_name_lower, "resume")
                \/ Contains(doc_name_lower, "curriculum")
        THEN "CV/Resume"
        ELSE IF Contains(doc_name_lower, "survey") \/ Contains(doc_name_lower, "questionnaire")
        THEN "Survey/Questionnaire"
        \* If name doesn't give clear indication, check content
        ELSE IF Contains(doc_content_lower, "consent")
                /\ (Contains(doc_content_lower, "voluntary")
                    \/ Contains(doc_content_lower, "withdraw"))
        THEN "Consent Form"
        ELSE IF Contains(doc_content_lower, "protocol")
                /\ (Contains(doc_content_lower, "methodology")
                    \/ Contains(doc_content_lower, "procedure"))
        THEN "Research Protocol"
        ELSE IF Contains(doc_content_lower, "ethics committee")
                /\ Contains(doc_content_lower, "application")
        THEN "Ethics Committee Application Form"
        ELSE IF (Contains(doc_content_lower, "education")
                    \/ Contains(doc_content_lower, "experience"))
                /\ (Contains(doc_content_lower, "skills")
                    \/ Contains(doc_content_lower, "qualification"))
        THEN "CV/Resume"
        ELSE IF Contains(doc_content_lower, "question")
                /\ (Contains(doc_content_lower, "answer")
                    \/ Contains(doc_content_lower, "response"))
        THEN "Survey/Questionnaire"
        ELSE "Supporting Document"

\* the stop-word list of _is_document_relevant
StopWords == {"what", "when", "where", "which", "how", "does", "will", "your", "this",
              "that", "these", "those", "have", "from", "with", "about"}

\* [word for word in question.lower().split() if len(word) > 3 and word not in stop]:
\* a list, so a word that occurs twice in the question counts twice
QuestionKeywords(question, stop) ==
    LET words == Split(Lower(question))
    IN  SelectSeq(words, LAMBDA word : Len(word) > 3 /\ word \notin stop)

\* sum(1 for keyword in question_keywords if keyword in doc_content.lower())
KeywordMatches(question_keywords, doc_content) ==
    LET doc_lower == Lower(doc_content)
    IN  Cardinality({i \in 1..Len(question_keywords) :
                        Contains(doc_lower, question_keywords[i])})

\* the gate with "at least 0.3" in place of "above 0.3"
_is_document_relevant_at_least(expected_type, actual_type, doc_content, question) ==
    IF expected_type = actual_type THEN TRUE
    ELSE LET question_keywords == QuestionKeywords(question, StopWords)
             keyword_matches == KeywordMatches(question_keywords, doc_content)
         IN  question_keywords # <<>> /\ 10 * keyword_matches >= 3 * Len(question_keywords)

\* the gate without the shortcut for equal types
_is_document_relevant_types_ignored(expected_type, actual_type, doc_content, question) ==
    LET question_keywords == QuestionKeywords(question, StopWords)
        keyword_matches == KeywordMatches(question_keywords, doc_content)
    IN  question_keywords # <<>> /\ 10 * keyword_matches > 3 * Len(question_keywords)

\* relevance_score = keyword_matches / len(question_keywords) if question_keywords
\* else 0, and the result is relevance_score > 0.3.  The quotient of two counts is
\* above the double 0.3 exactly when 10 * matches > 3 * count (the double nearest
\* to 3/10 is the quotient 3/10 itself, and no other quotient of counts below 200
\* rounds to it).
_is_document_relevant(expected_type, actual_type, doc_content, question) ==
    IF expected_type = actual_type THEN TRUE
    ELSE LET question_keywords == QuestionKeywords(question, StopWords)
             keyword_matches == KeywordMatches(question_keywords, doc_content)
         IN  question_keywords # <<>> /\ 10 * keyword_matches > 3 * Len(question_keywords)

\* the generic status with the typed scorers' thresholds
GenericStatusAt90And70(relevance_score) ==
    IF relevance_score >= 90 THEN "APPROVED"
    ELSE IF relevance_score >= 70 THEN "ANALYZING"
    ELSE "NEEDS_REVISION"

\* if relevance_score >= 80 ... elif relevance_score >= 60 ... else ...
GenericStatus(relevance_score) ==
    IF relevance_score >= 80 THEN "APPROVED"
    ELSE IF relevance_score >= 60 THEN "ANALYZING"
    ELSE "NEEDS_REVISION"

\* the relevance score rounded to the nearest integer instead of truncated
RelevanceScoreRounded(keyword_matches, question_keywords) ==
    IF question_keywords # <<>>
    THEN (200 * keyword_matches + Len(question_keywords)) \div (2 * Len(question_keywords))
    ELSE 50

\* int((keyword_matches / len(question_keywords)) * 100) if question_keywords else 50
RelevanceScore(keyword_matches, question_keywords) ==
    IF question_keywords # <<>>
    THEN (100 * keyword_matches) \div Len(question_keywords)
    ELSE 50

_analyze_generic_document(doc_content, question, doc_type) ==
    LET question_keywords == QuestionKeywords(question, StopWords \cup {"research"})
        keyword_matches == KeywordMatches(question_keywords, doc_content)
        relevance_score == RelevanceScore(keyword_matches, question_keywords)
        status == GenericStatus(relevance_score)
        doc_lower == Lower(doc_content)
        recommendations ==
            (IF relevance_score < 80
             THEN <<"Ensure the document directly addresses the question: '" \o question \o "'">>
             ELSE <<>>)
            \o (IF Len(doc_content) < 500
                THEN <<"Provide more detailed information in the document">> ELSE <<>>)
            \o (IF ~Contains(doc_lower, "ethics") /\ ~Contains(doc_lower, "ethical")
                THEN <<"Include explicit discussion of ethical considerations">> ELSE <<>>)
        analysis ==
            "This " \o doc_type \o " "
            \o (IF relevance_score >= 60 THEN "adequately" ELSE "inadequately")
            \o " addresses the question: '" \o question \o "'. "
            \o (IF relevance_score >= 80
                THEN "The document provides comprehensive information relevant to the question. "
                ELSE IF relevance_score >= 60
                THEN "The document provides some information relevant to the question, but could be more specific. "
                ELSE "The document does not appear to directly address the question. ")
            \o "Overall, the document " \o (IF relevance_score >= 60 THEN "is" ELSE "is not")
            \o " sufficient to address the ethical considerations raised in the question."
    IN  Verdict(status, analysis,
                IF relevance_score < 60 THEN <<"Specific addressing of the question">> ELSE <<>>,
                recommendations, relevance_score)

\* the gate's verdict with the actual type named in the first recommendation
IrrelevantVerdictNamingActual(expected_doc_type, actual_doc_type) ==
    Verdict("NEEDS_REVISION",
            "The uploaded document does not appear to be the required " \o expected_doc_type
                \o " for this question. The document appears to be a " \o actual_doc_type
                \o ", which does not address the requirements of this question.",
            <<"Appropriate document type", "Content relevant to the question">>,
            <<"Upload a " \o actual_doc_type \o " that specifically addresses this question",
              "Ensure the document contains all required elements">>,
            20)

\* the verdict returned when the relevance gate fails
IrrelevantVerdict(expected_doc_type, actual_doc_type) ==
    Verdict("NEEDS_REVISION",
            "The uploaded document does not appear to be the required " \o expected_doc_type
                \o " for this question. The document appears to be a " \o actual_doc_type
                \o ", which does not address the requirements of this question.",
            <<"Appropriate document type", "Content relevant to the question">>,
            <<"Upload a " \o expected_doc_type \o " that specifically addresses this question",
              "Ensure the document contains all required elements">>,
            20)

\* the scorer the if/elif chain on actual_doc_type selects
ScorerFor(actual_doc_type) ==
    IF actual_doc_type = "Consent Form" THEN "_analyze_consent_form"
    ELSE IF actual_doc_type = "Research Protocol" \/ actual_doc_type = "Study Protocol"
    THEN "_analyze_research_protocol"
    ELSE IF actual_doc_type = "Ethics Committee Application Form"
    THEN "_analyze_ethics_application_form"
    ELSE IF actual_doc_type = "CV/Resume" THEN "_analyze_cv"
    ELSE IF actual_doc_type = "Survey/Questionnaire" THEN "_analyze_survey"
    ELSE "_analyze_generic_document"

\* the review with the scorer selected from the expected type
_generate_document_review_by_expected_type(doc_content, question, doc_name) ==
    LET expected_doc_type == _determine_expected_document_type(question)
        actual_doc_type == _determine_actual_document_type(doc_name, doc_content)
        is_relevant == _is_document_relevant(expected_doc_type, actual_doc_type,
                                             doc_content, question)
        scorer == ScorerFor(expected_doc_type)
    IN  IF ~is_relevant THEN IrrelevantVerdict(expected_doc_type, actual_doc_type)
        ELSE IF scorer = "_analyze_consent_form" THEN _analyze_consent_form(doc_content)
        ELSE IF scorer = "_analyze_research_protocol"
        THEN _analyze_research_protocol(doc_content)
        ELSE IF scorer = "_analyze_ethics_application_form"
        THEN _analyze_ethics_application_form(doc_content)
        ELSE IF scorer = "_analyze_cv" THEN _analyze_cv(doc_content)
        ELSE IF scorer = "_analyze_survey" THEN _analyze_survey(doc_content)
        ELSE _analyze_generic_document(doc_content, question, actual_doc_type)

_generate_document_review(doc_content, question, doc_name) ==
    LET expected_doc_type == _determine_expected_document_type(question)
        actual_doc_type == _determine_actual_document_type(doc_name, doc_content)
        is_relevant == _is_document_relevant(expected_doc_type, actual_doc_type,
                                             doc_content, question)
        scorer == ScorerFor(actual_doc_type)
    IN  IF ~is_relevant THEN IrrelevantVerdict(expected_doc_type, actual_doc_type)
        ELSE IF scorer = "_analyze_consent_form" THEN _analyze_consent_form(doc_content)
        ELSE IF scorer = "_analyze_research_protocol"
        THEN _analyze_research_protocol(doc_content)
        ELSE IF scorer = "_analyze_ethics_application_form"
        THEN _analyze_ethics_application_form(doc_content)
        ELSE IF scorer = "_analyze_cv" THEN _analyze_cv(doc_content)
        ELSE IF scorer = "_analyze_survey" THEN _analyze_survey(doc_content)
        ELSE _analyze_generic_document(doc_content, question, actual_doc_type)

-----------------------------------------------------------------------------
(* The narrators and the report composer                                   *)

\* the narrative _generate_research_context_analysis returns
ResearchContextAnalysisText ==
    "\n"
    \o "    # Ethics Analysis\n"
    \o "\n"
    \o "    ## Ethical Considerations\n"
    \o "    Based on the research context provided, there are several ethical "
    \o "considerations to address:\n"
    \o "\n"
    \o "    1. **Participant Privacy**: Ensure all participant data is anonymized and "
    \o "securely stored.\n"
    \o "    2. **Informed Consent**: Clearly communicate the research purpose and how "
    \o "data will be used.\n"
    \o "    3. **Vulnerable Populations**: Take extra precautions if working with "
    \o "vulnerable groups.\n"
    \o "\n"
    \o "    ## Potential Risks\n"
    \o "    1. **Data Breach**: Unauthorized access to participant information\n"
    \o "    2. **Psychological Impact**: Potential distress from sensitive questions\n"
    \o "    3. **Confidentiality Concerns**: Maintaining anonymity in published results\n"
    \o "\n"
    \o "    ## Recommended Safeguards\n"
    \o "    1. Implement robust data security measures\n"
    \o "    2. Establish clear withdrawal procedures for participants\n"
    \o "    3. Create a detailed data management plan\n"
    \o "    4. Provide support resources for participants if needed\n"
    \o "\n"
    \o "    ## Compliance Requirements\n"
    \o "    1. Obtain IRB/Ethics Committee approval before beginning\n"
    \o "    2. Follow GDPR/local data protection regulations\n"
    \o "    3. Maintain documentation of consent procedures\n"
    \o "    4. Regular ethics reviews throughout the research process\n"
    \o "        "

\* the templates of _generate_question_feedback
HumanParticipantsYesText ==
    "\n"
    \o "    ## Feedback on Human Participants Question\n"
    \o "\n"
    \o "    Your 'YES' response indicates that your research involves human "
    \o "participants, which triggers important ethical considerations.\n"
    \o "\n"
    \o "    ### Key Ethical Requirements:\n"
    \o "    1. You must obtain informed consent from all participants\n"
    \o "    2. You need to ensure participant privacy and data confidentiality\n"
    \o "    3. Risk assessment and mitigation strategies must be in place\n"
    \o "    4. Vulnerable populations require additional protections\n"
    \o "\n"
    \o "    ### Documentation Needed:\n"
    \o "    - Participant information sheets\n"
    \o "    - Consent forms\n"
    \o "    - Recruitment materials\n"
    \o "    - Data management plan\n"
    \o "\n"
    \o "    Please ensure you have addressed all these aspects in your supporting "
    \o "documentation.\n"
    \o "                "

HumanParticipantsNoText ==
    "\n"
    \o "    ## Feedback on Human Participants Question\n"
    \o "\n"
    \o "    Your response indicates your research does not involve human participants. "
    \o "If this is accurate, many standard ethical requirements for human subjects "
    \o "research won't apply.\n"
    \o "\n"
    \o "    However, please double-check that your research truly doesn't involve:\n"
    \o "    - Collection of human data (including from existing datasets)\n"
    \o "    - Observation of human behavior\n"
    \o "    - Use of human tissue samples\n"
    \o "    - Surveys, interviews, or focus groups\n"
    \o "\n"
    \o "    If any of these elements are present, you should reconsider your answer as "
    \o "your research may actually involve human participants indirectly.\n"
    \o "                "

PersonalDataYesText ==
    "\n"
    \o "    ## Feedback on Personal Data Collection\n"
    \o "\n"
    \o "    Your 'YES' response indicates you will be collecting personal data, which "
    \o "has significant ethical and legal implications.\n"
    \o "\n"
    \o "    ### Important Considerations:\n"
    \o "    1. You must comply with relevant data protection regulations (e.g., GDPR)\n"
    \o "    2. Data minimization principles should be applied\n"
    \o "    3. Secure storage and transfer protocols are required\n"
    \o "    4. Data retention periods must be defined and justified\n"
    \o "    5. Participant rights regarding their data must be clearly communicated\n"
    \o "\n"
    \o "    ### Documentation Required:\n"
    \o "    - Data management plan\n"
    \o "    - Privacy notice for participants\n"
    \o "    - Data security protocols\n"
    \o "    - Data retention and destruction schedule\n"
    \o "\n"
    \o "    Ensure your documentation thoroughly addresses how you'll protect "
    \o "participant data throughout its lifecycle.\n"
    \o "                "

PersonalDataNoText ==
    "\n"
    \o "    ## Feedback on Personal Data Collection\n"
    \o "\n"
    \o "    Your response indicates you won't be collecting personal data. This "
    \o "simplifies some ethical requirements, but please verify that you truly won't "
    \o "collect any information that could identify individuals.\n"
    \o "\n"
    \o "    Remember that personal data includes:\n"
    \o "    - Names, addresses, email addresses\n"
    \o "    - ID numbers or online identifiers\n"
    \o "    - Location data\n"
    \o "    - Physical, physiological, genetic, or biometric data\n"
    \o "    - Factors specific to a person's identity\n"
    \o "\n"
    \o "    Even if you're collecting anonymized data, the process of collection might "
    \o "temporarily involve personal information, so consider whether any stage of your "
    \o "research involves personal data.\n"
    \o "                "

GenericFeedbackText(question, response) ==
    "\n"
    \o "## Feedback on Your Response\n"
    \o "\n"
    \o "Regarding the question: \""
    \o question
    \o "\"\n"
    \o "\n"
    \o "Your answer of \""
    \o response
    \o "\" has important ethical implications that should be carefully "
    \o "considered.\n"
    \o "\n"
    \o "### Assessment:\n"
    \o "The response you've provided requires you to think about how this aspect of "
    \o "your research aligns with ethical principles including respect for persons, "
    \o "beneficence, and justice.\n"
    \o "\n"
    \o "### Considerations:\n"
    \o "- How does this element of your research impact participant autonomy?\n"
    \o "- What measures are in place to ensure fair treatment of all stakeholders?\n"
    \o "- Have you considered both direct and indirect consequences of this aspect?\n"
    \o "\n"
    \o "### Recommendations:\n"
    \o "1. Document your reasoning for this decision in your research protocol\n"
    \o "2. Consider alternative approaches that might further minimize ethical concerns\n"
    \o "3. Consult relevant guidelines specific to this aspect of research ethics\n"
    \o "4. Be prepared to justify this position to the ethics committee\n"
    \o "\n"
    \o "Remember that ethical research requires ongoing reflection and adjustment "
    \o "throughout the research process.\n"
    \o "            "

\* the default response of get_completion
DefaultResponseText ==
    "I'm here to assist with your research ethics application. Please provide "
    \o "specific details about your research or questions about ethical requirements."

Text(text) == [kind |-> "text", text |-> text]

\* the narrative followed by the message it was asked about
_generate_research_context_analysis_echoing(message) ==
    Text(ResearchContextAnalysisText \o message)

_generate_research_context_analysis(message) == Text(ResearchContextAnalysisText)

\* the fixed object of the "vulnerable" and "document" branch
VulnerableDocumentVerdict ==
    Verdict("ANALYZING",
            "This research protocol outlines the methodology, participant recruitment, data collection procedures, and ethical considerations for the study.",
            <<"Detailed risk mitigation strategies">>,
            <<"Add more specific information about how risks will be mitigated",
              "Include a data management plan">>,
            80)

\* the narrator with the 'personal data' test ahead of the 'human participants' test
_generate_question_feedback_personal_data_first(question, response) ==
    LET response_upper == Strip(Upper(response))
        question_lower == Lower(question)
    IN  IF Contains(question_lower, "personal data")
        THEN (IF response_upper = "YES" THEN Text(PersonalDataYesText)
              ELSE Text(PersonalDataNoText))
        ELSE IF Contains(question_lower, "human participants")
        THEN (IF response_upper = "YES" THEN Text(HumanParticipantsYesText)
              ELSE Text(HumanParticipantsNoText))
        ELSE IF Contains(question_lower, "vulnerable") /\ Contains(question_lower, "document")
        THEN VulnerableDocumentVerdict
        ELSE Text(GenericFeedbackText(question, response))

\* the narrator with 'vulnerable' and 'document' looked for in the question as written
_generate_question_feedback_case_sensitive(question, response) ==
    LET response_upper == Strip(Upper(response))
        question_lower == Lower(question)
    IN  IF Contains(question_lower, "human participants")
        THEN (IF response_upper = "YES" THEN Text(HumanParticipantsYesText)
              ELSE Text(HumanParticipantsNoText))
        ELSE IF Contains(question_lower, "personal data")
        THEN (IF response_upper = "YES" THEN Text(PersonalDataYesText)
              ELSE Text(PersonalDataNoText))
        ELSE IF Contains(question, "vulnerable") /\ Contains(question, "document")
        THEN VulnerableDocumentVerdict
        ELSE Text(GenericFeedbackText(question, response))

_generate_question_feedback(question, response) ==
    LET response_upper == Strip(Upper(response))
        question_lower == Lower(question)
    IN  IF Contains(question_lower, "human participants")
        THEN (IF response_upper = "YES" THEN Text(HumanParticipantsYesText)
              ELSE Text(HumanParticipantsNoText))
        ELSE IF Contains(question_lower, "personal data")
        THEN (IF response_upper = "YES" THEN Text(PersonalDataYesText)
              ELSE Text(PersonalDataNoText))
        ELSE IF Contains(question_lower, "vulnerable") /\ Contains(question_lower, "document")
        THEN VulnerableDocumentVerdict
        ELSE Text(GenericFeedbackText(question, response))

Digits == <<"0", "1", "2", "3", "4", "5", "6", "7", "8", "9">>

\* str() of a non-negative int, as the f-string formats the score
RECURSIVE IntToStr(_)
IntToStr(n) == IF n < 10 THEN Digits[n + 1] ELSE IntToStr(n \div 10) \o Digits[(n % 10) + 1]

\* "- x\n" for each x of a list
RECURSIVE Bullets(_)
Bullets(items) ==
    IF items = <<>> THEN "" ELSE "- " \o Head(items) \o "\n" \o Bullets(Tail(items))

\* review.get(key, default) on a parsed JSON object
Get(review, key, default) == IF key \in DOMAIN review THEN review[key] ELSE default

\* isinstance(review, dict): a parsed JSON value that is no object is kept as
\* [json_scalar |-> its text]
IsDict(review) == "json_scalar" \notin DOMAIN review

\* the subsection the loop body adds for one (doc_id, review) item
ReportSection(doc_id, review) ==
    IF ~IsDict(review) THEN ""
    ELSE "\n### Document ID: " \o doc_id \o "\n"
         \o "**Status**: " \o Get(review, "status", "PENDING") \o "\n"
         \o (IF "compliance_score" \in DOMAIN review
             THEN "**Compliance Score**: " \o IntToStr(review.compliance_score) \o "/100\n"
             ELSE "")
         \o "\n**Analysis**: " \o Get(review, "analysis", "No analysis available") \o "\n"
         \o (IF Get(review, "missing_elements", <<>>) # <<>>
             THEN "\n**Missing Elements**:\n" \o Bullets(review.missing_elements) ELSE "")
         \o (IF Get(review, "recommendations", <<>>) # <<>>
             THEN "\n**Recommendations**:\n" \o Bullets(review.recommendations) ELSE "")
         \o "\n---\n"

\* the subsections in the reverse of the input order
RECURSIVE ReportSectionsReversed(_)
ReportSectionsReversed(reviews) ==
    IF reviews = <<>> THEN ""
    ELSE ReportSectionsReversed(Tail(reviews))
         \o ReportSection(reviews[1].doc_id, reviews[1].review)

RECURSIVE ReportSections(_)
ReportSections(reviews) ==
    IF reviews = <<>> THEN ""
    ELSE ReportSection(reviews[1].doc_id, reviews[1].review) \o ReportSections(Tail(reviews))

ReportHead ==
    "\n# Ethics Review Report\n\n## Executive Summary\n"
    \o "This report summarizes the ethical review of submitted documents for your research project. Overall, the documentation meets most ethical requirements with some recommendations for improvement.\n"
    \o "\n## Document Analysis\n"

ReportPlaceholder ==
    "\nNo document reviews are available. Please ensure all required documents have been uploaded and reviewed.\n"

ReportTail ==
    "\n## Next Steps\n"
    \o "1. Address any identified issues in the documents\n"
    \o "2. Submit revised documentation where required\n"
    \o "3. Proceed with participant recruitment once all documents are approved\n"
    \o "\nFor any questions or clarification, please contact the Ethics Committee.\n"

\* the report with the reading of the clock written into its text as well
_generate_review_report_stamped(reviews, generated_at) ==
    [kind |-> "report",
     status |-> "COMPLETED",
     report |-> ReportHead
                \o (IF reviews # <<>> THEN ReportSections(reviews) ELSE ReportPlaceholder)
                \o ReportTail \o "\nGenerated at: " \o IntToStr(generated_at) \o "\n",
     generated_at |-> generated_at]

\* reviews: the items of the dict in insertion order, as [doc_id, review] records;
\* generated_at: the reading of datetime.now()
_generate_review_report(reviews, generated_at) ==
    [kind |-> "report",
     status |-> "COMPLETED",
     report |-> ReportHead
                \o (IF reviews # <<>> THEN ReportSections(reviews) ELSE ReportPlaceholder)
                \o ReportTail,
     generated_at |-> generated_at]

-----------------------------------------------------------------------------
(* get_completion                                                          *)

max_retries == 3

\* API_CONFIG['backoff_factor'], 0.5 seconds, in tenths of a second
backoff_factor == 5

\* the readings datetime.now() may give are 1..MaxClock
MaxClock == 2

\* sep.join(items)
RECURSIVE Join(_, _)
Join(items, sep) ==
    IF items = <<>> THEN ""
    ELSE IF Len(items) = 1 THEN items[1]
    ELSE items[1] \o sep \o Join(Tail(items), sep)

\* json.dumps of a str without a quote, a backslash, a control character or a
\* character outside ASCII (the texts of this model have none)
JsonString(str) == "\"" \o str \o "\""

\* json.dumps(items, indent=2) of a list of str whose opening bracket stands on a
\* line indented by pad
JsonArray(items, pad) ==
    IF items = <<>> THEN "[]"
    ELSE "[\n"
         \o Join([i \in 1..Len(items) |-> pad \o "  " \o JsonString(items[i])], ",\n")
         \o "\n" \o pad \o "]"

\* json.dumps(d, indent=2) of a dict given as its [key, text] members in insertion
\* order, text being the dump of the value
JsonObject(members, pad) ==
    IF members = <<>> THEN "{}"
    ELSE "{\n"
         \o Join([i \in 1..Len(members) |->
                    pad \o "  " \o JsonString(members[i].key) \o ": " \o members[i].text],
                 ",\n")
         \o "\n" \o pad \o "}"

\* the members of a review: its keys in the order the engine's verdicts and error
\* objects have them.  A list key whose value is the JSON number n is kept as
\* <key>_number |-> n.
ReviewMembers(review, pad) ==
    LET str(key) == IF key \in DOMAIN review
                    THEN <<[key |-> key, text |-> JsonString(review[key])]>> ELSE <<>>
        list(key) == IF key \in DOMAIN review
                     THEN <<[key |-> key, text |-> JsonArray(review[key], pad \o "  ")]>>
                     ELSE <<>>
        num(key, as) == IF key \in DOMAIN review
                        THEN <<[key |-> as, text |-> IntToStr(review[key])]>> ELSE <<>>
    IN  str("status") \o str("analysis") \o str("message")
        \o list("missing_elements") \o num("missing_elements_number", "missing_elements")
        \o list("recommendations") \o num("compliance_score", "compliance_score")

\* json.dumps(reviews, indent=2) of the dict whose items are `reviews`
JsonDumpsReviews(reviews) ==
    JsonObject([i \in 1..Len(reviews) |->
                    [key |-> reviews[i].doc_id,
                     text |-> JsonObject(ReviewMembers(reviews[i].review, "  "), "  ")]],
               "")

\* the verdict of the consent-form scorer on "Consent is voluntary. ", as a review
ConsentReview ==
    [status |-> "NEEDS_REVISION",
     analysis |->
        "This consent form inadequately addresses the ethical requirements for informed "
        \o "consent. The form includes information about voluntary. However, it is missing "
        \o "information about research purpose, procedures, risks, benefits, "
        \o "confidentiality, withdrawal, contact. Overall, the document does not meet the "
        \o "basic requirements for an informed consent form.",
     missing_elements |->
        <<"research purpose", "procedures", "risks", "benefits", "confidentiality",
          "withdrawal", "contact">>,
     recommendations |->
        <<"Add information about research purpose", "Add information about procedures",
          "Add information about risks", "Add information about benefits",
          "Add information about confidentiality", "Add information about withdrawal",
          "Add information about contact">>,
     compliance_score |-> 12]

\* the reviews maps handed to DocumentProcessorAgent.generate_review_report: none,
\* one verdict of the engine, a verdict and an error object, and a review whose
\* missing_elements is the number 5
AgentReviews ==
    {<<>>,
     <<[doc_id |-> "q1", review |-> ConsentReview]>>,
     <<[doc_id |-> "q1", review |-> ConsentReview],
       [doc_id |-> "q2", review |->
            [status |-> "ERROR",
             message |-> "Document review unavailable due to AI service error."]]>>,
     <<[doc_id |-> "q1", review |-> [status |-> "APPROVED", missing_elements_number |-> 5]]>>}

ReviewsJsonEmpty == "{}"
ReviewsJsonOne ==
    "{\"doc1\": {\"status\": \"APPROVED\", \"analysis\": \"The consent form meets all requirements.\", "
    \o "\"missing_elements\": [], \"recommendations\": [\"Add contact information for the ethics committee\"], "
    \o "\"compliance_score\": 95}}"
ReviewsJsonTwo ==
    "{\"doc1\": {\"status\": \"APPROVED\", \"analysis\": \"The consent form meets all requirements.\", "
    \o "\"missing_elements\": [], \"recommendations\": [\"Add contact information for the ethics committee\"], "
    \o "\"compliance_score\": 95}, "
    \o "\"doc2\": {\"status\": \"NEEDS_REVISION\", \"missing_elements\": [\"Data security procedures\"]}, "
    \o "\"note\": \"draft\"}"
ReviewsJsonBroken == "{\"doc1\": {\"status\": }"

Doc1Review ==
    [status |-> "APPROVED", analysis |-> "The consent form meets all requirements.",
     missing_elements |-> <<>>,
     recommendations |-> <<"Add contact information for the ethics committee">>,
     compliance_score |-> 95]

\* json.loads(json_str): [ok |-> TRUE, value |-> the items] or [ok |-> FALSE] when
\* it raises.  json is the standard library's; it is given here by its value on
\* each JSON text a request of this model carries, and raises on any other text.
JsonLoads(json_str) ==
    IF json_str = ReviewsJsonEmpty THEN [ok |-> TRUE, value |-> <<>>]
    ELSE IF json_str = ReviewsJsonOne
    THEN [ok |-> TRUE, value |-> <<[doc_id |-> "doc1", review |-> Doc1Review]>>]
    ELSE IF json_str = ReviewsJsonTwo
    THEN [ok |-> TRUE, value |->
            <<[doc_id |-> "doc1", review |-> Doc1Review],
              [doc_id |-> "doc2", review |->
                    [status |-> "NEEDS_REVISION",
                     missing_elements |-> <<"Data security procedures">>]],
              [doc_id |-> "note", review |-> [json_scalar |-> "draft"]]>>]
    ELSE LET dumped == {reviews \in AgentReviews : json_str = JsonDumpsReviews(reviews)}
         IN  IF dumped # {} THEN [ok |-> TRUE, value |-> CHOOSE reviews \in dumped : TRUE]
             ELSE [ok |-> FALSE]

\* the reviews the report branch extracts from the user message
ExtractReviews(last_user_message) ==
    LET start_idx == Find(last_user_message, "{")
        end_idx == RFind(last_user_message, "}") + 1
    IN  IF start_idx >= 0 /\ end_idx > start_idx
        THEN LET loaded == JsonLoads(Slice(last_user_message, start_idx, end_idx))
             IN  IF loaded.ok THEN loaded.value ELSE <<>>
        ELSE <<>>

\* the loop keeping the first message of the role instead of the last
FirstOfRole(msgs, role) ==
    LET at == {i \in 1..Len(msgs) : msgs[i].role = role}
    IN  IF at = {} THEN [found |-> FALSE, content |-> ""]
        ELSE [found |-> TRUE,
              content |-> msgs[CHOOSE i \in at : \A j \in at : i <= j].content]

\* the for loop over messages: the content of the last message of the role, if any
RECURSIVE LastOfRole(_, _)
LastOfRole(msgs, role) ==
    IF msgs = <<>> THEN [found |-> FALSE, content |-> ""]
    ELSE IF msgs[Len(msgs)].role = role
         THEN [found |-> TRUE, content |-> msgs[Len(msgs)].content]
         ELSE LastOfRole(SubSeq(msgs, 1, Len(msgs) - 1), role)

\* the loop with a missing user message raised as an exception as well
AttemptRaisesWithoutUser(msgs) ==
    \/ \E i \in 1..Len(msgs) :
            IF "role" \notin DOMAIN msgs[i] THEN TRUE
            ELSE msgs[i].role \in {"user", "system"} /\ "content" \notin DOMAIN msgs[i]
    \/ \A i \in 1..Len(msgs) :
            IF "role" \notin DOMAIN msgs[i] \/ "content" \notin DOMAIN msgs[i] THEN TRUE
            ELSE msgs[i].role # "user" \/ msgs[i].content = ""

\* msg['role'] raises KeyError on a record without the key, and so does
\* msg['content'] on a user or system record without it
RecordRaises(msgs) ==
    \E i \in 1..Len(msgs) :
        IF "role" \notin DOMAIN msgs[i] THEN TRUE
        ELSE msgs[i].role \in {"user", "system"} /\ "content" \notin DOMAIN msgs[i]

\* _generate_review_report raises TypeError in enumerate(missing_elements, 1) or
\* enumerate(recommendations, 1) when the value is a number other than 0, which is
\* true in the if before it and cannot be iterated
ReportRaises(reviews) ==
    \E i \in 1..Len(reviews) :
        /\ "json_scalar" \notin DOMAIN reviews[i].review
        /\ \E key \in {"missing_elements_number", "recommendations_number"} :
                IF key \in DOMAIN reviews[i].review THEN reviews[i].review[key] # 0 ELSE FALSE

\* "review report" in system_message.lower() if system_message
\*     else False or "generate a review report" in last_user_message.lower()
\* Python reads this as  A if system_message else (False or B)
IsReportRequest(system, last_user_message) ==
    IF system.found /\ system.content # ""
    THEN Contains(Lower(system.content), "review report")
    ELSE Contains(Lower(last_user_message), "generate a review report")

\* the if/elif chain with the question feedback test ahead of the context test
ClassifyFeedbackFirst(system, last_user_message) ==
    IF Contains(last_user_message, "Document Content Preview:")
    THEN "_generate_document_review"
    ELSE IF Contains(last_user_message, "Question:") /\ Contains(last_user_message, "Response:")
    THEN "_generate_question_feedback"
    ELSE IF Contains(Lower(last_user_message), "research context")
    THEN "_generate_research_context_analysis"
    ELSE IF IsReportRequest(system, last_user_message)
    THEN "_generate_review_report"
    ELSE "default"

\* the if/elif chain of get_completion: the branch taken
Classify(system, last_user_message) ==
    IF Contains(last_user_message, "Document Content Preview:")
    THEN "_generate_document_review"
    ELSE IF Contains(Lower(last_user_message), "research context")
    THEN "_generate_research_context_analysis"
    ELSE IF Contains(last_user_message, "Question:") /\ Contains(last_user_message, "Response:")
    THEN "_generate_question_feedback"
    ELSE IF IsReportRequest(system, last_user_message)
    THEN "_generate_review_report"
    ELSE "default"

\* the document review branch: doc_content, question and doc_name cut out
ReviewArguments(last_user_message) ==
    LET doc_content_start == Find(last_user_message, "Document Content Preview:")
                                + Len("Document Content Preview:")
        doc_content_end == IF Contains(last_user_message, "Please analyze")
                           THEN Find(last_user_message, "Please analyze")
                           ELSE Len(last_user_message)
        question_start == Find(last_user_message, "Ethics Question:") + Len("Ethics Question:")
        question_end == Find(last_user_message, "Document Name:")
        doc_name_start == Find(last_user_message, "Document Name:") + Len("Document Name:")
        doc_name_end == Find(last_user_message, "Document Type:")
    IN  [doc_content |-> Strip(Slice(last_user_message, doc_content_start, doc_content_end)),
         question |-> IF question_end > question_start
                      THEN Strip(Slice(last_user_message, question_start, question_end))
                      ELSE "",
         doc_name |-> IF doc_name_end > doc_name_start
                      THEN Strip(Slice(last_user_message, doc_name_start, doc_name_end))
                      ELSE ""]

\* the question feedback branch: question and response cut out
FeedbackArguments(last_user_message) ==
    LET question_start == Find(last_user_message, "Question:") + Len("Question:")
        question_end == Find(last_user_message, "Response:")
        response_start == Find(last_user_message, "Response:") + Len("Response:")
        response_end == IF Contains(last_user_message, "Document Name:")
                        THEN Find(last_user_message, "Document Name:")
                        ELSE Len(last_user_message)
    IN  [question |-> Strip(Slice(last_user_message, question_start, question_end)),
         response |-> Strip(Slice(last_user_message, response_start, response_end))]

NoArguments == [question |-> "", doc_name |-> "", doc_content |-> "", response |-> ""]

NoUserMessage ==
    [kind |-> "error", status |-> "ERROR",
     message |-> "No user message found in the conversation."]

ServiceUnavailable ==
    [kind |-> "error", status |-> "ERROR",
     message |-> "AI service unavailable. Please try again later."]

\* one pass through the try block on well-formed records: the branch taken, the
\* arguments it cut out of the user message and the value returned
TryBlock(msgs, now) ==
    LET user == LastOfRole(msgs, "user")
        system == LastOfRole(msgs, "system")
        last_user_message == user.content
        branch == Classify(system, last_user_message)
    IN  IF ~user.found \/ user.content = ""
        THEN [handler |-> "no_user_message", args |-> NoArguments, value |-> NoUserMessage]
        ELSE IF branch = "_generate_document_review"
        THEN LET a == ReviewArguments(last_user_message)
             IN  [handler |-> branch,
                  args |-> [NoArguments EXCEPT !.question = a.question,
                                !.doc_name = a.doc_name, !.doc_content = a.doc_content],
                  value |-> _generate_document_review(a.doc_content, a.question, a.doc_name)]
        ELSE IF branch = "_generate_research_context_analysis"
        THEN [handler |-> branch, args |-> NoArguments,
              value |-> _generate_research_context_analysis(last_user_message)]
        ELSE IF branch = "_generate_question_feedback"
        THEN LET a == FeedbackArguments(last_user_message)
             IN  [handler |-> branch,
                  args |-> [NoArguments EXCEPT !.question = a.question,
                                !.response = a.response],
                  value |-> _generate_question_feedback(a.question, a.response)]
        ELSE IF branch = "_generate_review_report"
        THEN [handler |-> branch, args |-> NoArguments,
              value |-> _generate_review_report(ExtractReviews(last_user_message), now)]
        ELSE [handler |-> "default", args |-> NoArguments, value |-> Text(DefaultResponseText)]

\* a pass through the try block ends in the except block: a record lacks a key the
\* loop reads, or the report branch is taken and the report composer raises
AttemptRaises(msgs) ==
    IF RecordRaises(msgs) THEN TRUE
    ELSE LET user == LastOfRole(msgs, "user")
             system == LastOfRole(msgs, "system")
         IN  /\ user.found
             /\ user.content # ""
             /\ Classify(system, user.content) = "_generate_review_report"
             /\ ReportRaises(ExtractReviews(user.content))

-----------------------------------------------------------------------------
(* ScorerSpec: each typed scorer applied to a document text                *)

\* the most table fragments a document text is put together from
MaxFragments == 9

ConsentFragments == <<"The PURPOSE of the study", "Procedures", "Risk", "Benefits",
                      "Confidential", "Voluntary", "Withdraw", "Email us">>
ProtocolFragments == <<"Background", "Objective", "Method", "Participants", "Collect",
                       "Statistical", "Ethic", "Timeline">>
ApplicationFragments == <<"Investigator", "Title", "Approach", "Recruitment", "Issue",
                          "Mitigation", "Storage", "Inform", "Certify">>
CVFragments == <<"University", "Job", "Skill", "Study", "Journal", "IRB", "Ethical">>
SurveyFragments == <<"About", "Guide", "Answer", "Scale", "Sensitive", "Data", "Contact">>

\* the fragments chosen by `chosen`, in order, each followed by ". "
RECURSIVE DocOf(_, _, _)
DocOf(fragments, chosen, i) ==
    IF i > Len(fragments) THEN ""
    ELSE (IF i \in chosen THEN fragments[i] \o ". " ELSE "") \o DocOf(fragments, chosen, i + 1)

DocsFrom(fragments) ==
    {DocOf(fragments, chosen, 1) :
        chosen \in {c \in SUBSET (1..Len(fragments)) : Cardinality(c) <= MaxFragments}}

ScorerDocs ==
    DocsFrom(ConsentFragments) \cup DocsFrom(ProtocolFragments)
        \cup DocsFrom(ApplicationFragments) \cup DocsFrom(CVFragments)
        \cup DocsFrom(SurveyFragments)

TypedScorers == {"_analyze_consent_form", "_analyze_research_protocol",
                 "_analyze_ethics_application_form", "_analyze_cv", "_analyze_survey"}

\* the key_elements table of a typed scorer
TableOf(scorer) ==
    CASE scorer = "_analyze_consent_form" -> ConsentFormElements
      [] scorer = "_analyze_research_protocol" -> ResearchProtocolElements
      [] scorer = "_analyze_ethics_application_form" -> EthicsApplicationElements
      [] scorer = "_analyze_cv" -> CVElements
      [] scorer = "_analyze_survey" -> SurveyElements

ScorerInit ==
    /\ messages = <<>>
    /\ retries = 0
    /\ sleeps = <<>>
    /\ pc = "idle"
    /\ handler = ""
    /\ in_question = ""
    /\ in_name = ""
    /\ in_content \in ScorerDocs
    /\ in_response = ""
    /\ result = None
    /\ previous = None
    /\ AppAtRest

Scored(scorer, verdict) ==
    /\ pc = "idle"
    /\ pc' = "done"
    /\ handler' = scorer
    /\ result' = verdict
    /\ UNCHANGED <<messages, retries, sleeps, in_question, in_name, in_content, in_response,
                   previous>>
    /\ UNCHANGED appVars

AnalyzeConsentForm == Scored("_analyze_consent_form", _analyze_consent_form(in_content))
AnalyzeResearchProtocol ==
    Scored("_analyze_research_protocol", _analyze_research_protocol(in_content))
AnalyzeEthicsApplicationForm ==
    Scored("_analyze_ethics_application_form", _analyze_ethics_application_form(in_content))
AnalyzeCV == Scored("_analyze_cv", _analyze_cv(in_content))
AnalyzeSurvey == Scored("_analyze_survey", _analyze_survey(in_content))

ScorerNext ==
    \/ AnalyzeConsentForm
    \/ AnalyzeResearchProtocol
    \/ AnalyzeEthicsApplicationForm
    \/ AnalyzeCV
    \/ AnalyzeSurvey

ScorerSpec == ScorerInit /\ [][ScorerNext]_vars

\* a typed scorer has returned
TypedScored == pc = "done" /\ handler \in TypedScorers

\* the categories of the scorer's table one of whose keywords, as the table
\* writes it, occurs in the lower-cased text: what the scorer counts as present
PresentCount ==
    LET table == TableOf(handler)
    IN  Cardinality({i \in 1..Len(table) :
                        AnyKeywordIn(table[i].keywords, Lower(in_content))})

SeqRange(seq) == {seq[i] : i \in 1..Len(seq)}

\* C1: every typed scorer returns a compliance_score in 0..100, and its status is
\* APPROVED iff score >= 90, ANALYZING iff 70 <= score < 90, NEEDS_REVISION iff
\* score < 70.
C1_TypedScoreAndStatus ==
    TypedScored =>
        /\ result.compliance_score \in 0..100
        /\ result.status \in {"APPROVED", "ANALYZING", "NEEDS_REVISION"}
        /\ (result.status = "APPROVED") <=> (result.compliance_score >= 90)
        /\ (result.status = "ANALYZING") <=>
                (result.compliance_score >= 70 /\ result.compliance_score < 90)
        /\ (result.status = "NEEDS_REVISION") <=> (result.compliance_score < 70)

\* C1 witness: the ethics application scorer found 8 of its 9 categories and
\* returned 88, ANALYZING
C1_Witness ==
    /\ TypedScored
    /\ handler = "_analyze_ethics_application_form"
    /\ PresentCount = 8
    /\ result.compliance_score = 88
    /\ result.status = "ANALYZING"

\* C3 as stated: the compliance_score of a typed scorer is 100 * p / n rounded to
\* the nearest integer (within one half of the exact percentage, whichever way a
\* tie is broken), p the number of present categories and n the table size.
C3_ScoreIsNearestInteger ==
    TypedScored =>
        LET n == Len(TableOf(handler))
            d == 100 * PresentCount - n * result.compliance_score
        IN  2 * d <= n /\ 2 * d >= -n

\* C3 amended: the compliance_score of a typed scorer is 100 * p / n truncated to
\* an integer: the largest integer not above the exact percentage.
C3_ScoreIsTruncated ==
    TypedScored =>
        LET n == Len(TableOf(handler))
        IN  /\ n * result.compliance_score <= 100 * PresentCount
            /\ 100 * PresentCount < n * (result.compliance_score + 1)

\* C3 witness: 5 of the 9 ethics application categories are present (55.6 percent)
\* and the score returned is 55
C3_Witness ==
    /\ TypedScored
    /\ handler = "_analyze_ethics_application_form"
    /\ PresentCount = 5
    /\ result.compliance_score = 55

\* C7 as stated: in every typed scorer each category is classified exactly once,
\* present iff some keyword of the category is a case-insensitive substring of the
\* text: missing_elements holds exactly the categories with no such keyword, each
\* once and in table order, and recommendations has one entry per missing category.
C7_ClassifiedByCaseInsensitiveKeyword ==
    TypedScored =>
        LET table == TableOf(handler)
            absent == {i \in 1..Len(table) :
                        ~\E k \in 1..Len(table[i].keywords) :
                            Contains(Lower(in_content), Lower(table[i].keywords[k]))}
        IN  /\ SeqRange(result.missing_elements) =
                    {ReplaceUnderscore(table[i].element) : i \in absent}
            /\ Len(result.missing_elements) = Cardinality(absent)
            /\ Len(result.recommendations) = Cardinality(absent)

-----------------------------------------------------------------------------
(* ReviewSpec: _generate_document_review applied to a question, a document *)
(* name and a document text                                                *)

\* a question of ten significant words, none of which names a document type
TenWordQuestion ==
    "recruitment storage retention sharing disposal archiving encryption anonymisation backup transfer"

ReviewQuestions == {
    "Please upload your Informed Consent Form",
    "Please upload your research protocol.",
    "Attach the study protocol",
    "Attach the consent form of your survey protocol",
    "Please attach the application form",
    "Upload your CV",
    "Provide the ethics application form",
    "Provide the survey questionnaire",
    "Does your research involve human participants?",
    "Storage retention sharing",
    TenWordQuestion,
    "" }

ReviewNames == {"random_notes.txt", "Informed_Consent_Form.docx", "Research_Protocol.docx",
                "ethics_committee.pdf", "my_CV.pdf", "survey.doc",
                "Please attach the application form", "Upload your CV"}

ReviewFragments == <<"Recruitment", "Storage", "Retention", "Sharing", "Consent is voluntary">>

CompleteConsentForm ==
    "Purpose of the research. Procedures. Risks and benefits. Confidentiality. "
        \o "Voluntary participation: you can withdraw at any time by contacting the team."

ReviewDocs == DocsFrom(ReviewFragments) \cup {"my shopping list", CompleteConsentForm}

ReviewInit ==
    /\ messages = <<>>
    /\ retries = 0
    /\ sleeps = <<>>
    /\ pc = "idle"
    /\ handler = ""
    /\ in_question \in ReviewQuestions
    /\ in_name \in ReviewNames
    /\ in_content \in ReviewDocs
    /\ in_response = ""
    /\ result = None
    /\ previous = None
    /\ AppAtRest

GenerateDocumentReview ==
    /\ pc = "idle"
    /\ pc' = "done"
    /\ handler' = "_generate_document_review"
    /\ result' = _generate_document_review(in_content, in_question, in_name)
    /\ UNCHANGED <<messages, retries, sleeps, in_question, in_name, in_content, in_response,
                   previous>>
    /\ UNCHANGED appVars

\* the caller takes the verdict and reviews the same document again
ReviewAgain ==
    /\ pc = "done"
    /\ pc' = "idle"
    /\ handler' = ""
    /\ result' = None
    /\ UNCHANGED <<messages, retries, sleeps, in_question, in_name, in_content, in_response,
                   previous>>
    /\ UNCHANGED appVars

ReviewNext == GenerateDocumentReview \/ ReviewAgain

ReviewSpec == ReviewInit /\ [][ReviewNext]_vars

Reviewed == pc = "done" /\ handler = "_generate_document_review"

ExpectedType == _determine_expected_document_type(in_question)
ActualType == _determine_actual_document_type(in_name, in_content)

\* the verdict is the one the failed relevance gate returns
IsShortCircuit(verdict) ==
    /\ verdict.kind = "verdict"
    /\ verdict.missing_elements =
            <<"Appropriate document type", "Content relevant to the question">>

\* the significant words of the question: longer than 3 and no stop word
SignificantWords ==
    LET words == Split(Lower(in_question))
    IN  SelectSeq(words, LAMBDA w : Len(w) > 3 /\ w \notin StopWords)

\* how many of them occur in the text, case ignored
SignificantMatched ==
    Cardinality({i \in 1..Len(SignificantWords) :
                    Contains(Lower(in_content), SignificantWords[i])})

\* C2 as stated: every verdict of the document review path has its status set from
\* its compliance_score by >= 90 APPROVED, >= 70 ANALYZING, else NEEDS_REVISION,
\* except the irrelevant-document verdict, which is NEEDS_REVISION with score 20.
C2_StatusByTypedThresholds ==
    Reviewed =>
        IF IsShortCircuit(result)
        THEN result.status = "NEEDS_REVISION" /\ result.compliance_score = 20
        ELSE result.status =
                (IF result.compliance_score >= 90 THEN "APPROVED"
                 ELSE IF result.compliance_score >= 70 THEN "ANALYZING"
                 ELSE "NEEDS_REVISION")

\* C2 amended: the status is set from the score by 90 / 70 when a typed scorer ran
\* and by 80 / 60 when the generic scorer ran (actual type Supporting Document);
\* the irrelevant-document verdict is NEEDS_REVISION with score 20.
C2_StatusByScorerThresholds ==
    Reviewed =>
        IF IsShortCircuit(result)
        THEN result.status = "NEEDS_REVISION" /\ result.compliance_score = 20
        ELSE IF ActualType = "Supporting Document"
        THEN result.status =
                (IF result.compliance_score >= 80 THEN "APPROVED"
                 ELSE IF result.compliance_score >= 60 THEN "ANALYZING"
                 ELSE "NEEDS_REVISION")
        ELSE result.status =
                (IF result.compliance_score >= 90 THEN "APPROVED"
                 ELSE IF result.compliance_score >= 70 THEN "ANALYZING"
                 ELSE "NEEDS_REVISION")

\* C2 witness: the generic scorer returned ANALYZING with a score of 66
C2_Witness ==
    /\ Reviewed
    /\ ~IsShortCircuit(result)
    /\ ActualType = "Supporting Document"
    /\ result.compliance_score = 66
    /\ result.status = "ANALYZING"

\* C4: when the expected type inferred from the question equals the actual type
\* inferred from name and content, the review is never the irrelevant-document
\* verdict.
C4_EqualTypesPassGate ==
    (Reviewed /\ ExpectedType = ActualType) => ~IsShortCircuit(result)

\* C4 witness: a consent form question, a file named as a consent form, a text
\* that shares no word with the question, and a scored verdict
C4_Witness ==
    /\ Reviewed
    /\ ExpectedType = "Consent Form"
    /\ ActualType = "Consent Form"
    /\ in_content = "my shopping list"
    /\ SignificantMatched = 0
    /\ ~IsShortCircuit(result)

\* C5: when expected and actual type differ, the document is relevant (the review
\* is not the irrelevant-document verdict) iff the fraction of the significant
\* question words found in the text is strictly above 0.3; a fraction of exactly
\* 0.3 and a question without significant words are not relevant.
C5_RelevantIffFractionAboveThreshold ==
    (Reviewed /\ ExpectedType # ActualType) =>
        (~IsShortCircuit(result)) <=>
            (Len(SignificantWords) > 0 /\ 10 * SignificantMatched > 3 * Len(SignificantWords))

\* C5 witness: types differ, exactly 3 of 10 significant words are found, and the
\* irrelevant-document verdict is returned
C5_Witness ==
    /\ Reviewed
    /\ ExpectedType # ActualType
    /\ Len(SignificantWords) = 10
    /\ SignificantMatched = 3
    /\ IsShortCircuit(result)

\* C6: when the relevance gate fails the verdict is NEEDS_REVISION with score 20,
\* the two fixed missing elements and two recommendations, and these fields are
\* given by the question alone: they do not vary with the document.
C6_IrrelevantVerdictFixed ==
    (Reviewed /\ ~_is_document_relevant(ExpectedType, ActualType, in_content, in_question)) =>
        /\ result.status = "NEEDS_REVISION"
        /\ result.compliance_score = 20
        /\ result.missing_elements =
                <<"Appropriate document type", "Content relevant to the question">>
        /\ result.recommendations =
                <<"Upload a " \o _determine_expected_document_type(in_question)
                    \o " that specifically addresses this question",
                  "Ensure the document contains all required elements">>

\* C6 witness: 'random_notes.txt' holding 'my shopping list' reviewed against the
\* consent form question
C6_Witness ==
    /\ Reviewed
    /\ in_question = "Please upload your Informed Consent Form"
    /\ in_name = "random_notes.txt"
    /\ in_content = "my shopping list"
    /\ ExpectedType = "Consent Form"
    /\ ActualType = "Supporting Document"
    /\ result.status = "NEEDS_REVISION"
    /\ result.compliance_score = 20

-----------------------------------------------------------------------------
(* The requests the callers build                                          *)

\* the user message DocumentProcessorAgent.review_document builds (document_text is
\* cut to 3000 characters there; the texts of this model are shorter)
ReviewPrompt(question, filename, document_type, document_text) ==
    "\n"
    \o "                    Ethics Question: "
    \o question
    \o "\n"
    \o "                    \n"
    \o "                    Document Name: "
    \o filename
    \o "\n"
    \o "                    Document Type: "
    \o document_type
    \o "\n"
    \o "                    \n"
    \o "                    Document Content Preview:\n"
    \o "                    "
    \o document_text
    \o "\n"
    \o "                    \n"
    \o "                    Please analyze this document and provide:\n"
    \o "                    1. An assessment of whether it adequately addresses the "
    \o "ethics question\n"
    \o "                    2. Identification of any missing or incomplete elements\n"
    \o "                    3. Specific recommendations for improvement\n"
    \o "                    4. A status determination (APPROVED, ANALYZING, or "
    \o "NEEDS_REVISION)\n"
    \o "                    \n"
    \o "                    Format your response as a JSON object with these fields:\n"
    \o "                    - status: \"APPROVED\", \"ANALYZING\", or \"NEEDS_REVISION\"\n"
    \o "                    - analysis: A detailed analysis of the document\n"
    \o "                    - missing_elements: List of any missing or incomplete "
    \o "elements\n"
    \o "                    - recommendations: List of specific recommendations for "
    \o "improvement\n"
    \o "                    - compliance_score: A number from 0-100 indicating how well "
    \o "the document meets requirements\n"
    \o "                    "

\* the user message of test_ethics_questionnaire_feedback
TestFeedbackPrompt(question, response) ==
    "\n"
    \o "            Question: "
    \o question
    \o "\n"
    \o "            Response: "
    \o response
    \o "\n"
    \o "            \n"
    \o "            Please provide specific feedback on this ethics question response.\n"
    \o "            "

\* the prompt app.get_question_feedback builds; document is <<>> or one record
\* [name, type, content] whose content is the text extracted from the upload
FeedbackPrompt(question_text, response_answer, document) ==
    "Question: " \o question_text \o "\nResponse: " \o response_answer \o "\n"
    \o (IF document # <<>>
        THEN "\nDocument Name: " \o document[1].name \o "\n"
             \o "Document Type: " \o document[1].type \o "\n"
             \o "Document Content Preview:\n" \o document[1].content \o "\n"
        ELSE "")
    \o "\nPlease provide specific, detailed feedback on this ethics question response."
    \o (IF document # <<>>
        THEN " Evaluate if the attached document adequately addresses the requirements related to this specific question. Focus on the content of this particular document and how it relates to the ethics question."
        ELSE " Since no document was provided, focus on the ethical implications of the response and what documentation might be needed.")
    \o "\nYour feedback should be unique to this specific question and document, not generic."

\* the user message of test_research_context_feedback around the JSON of the context
ContextPrompt(context_json) == "Please analyze this research context:\n" \o context_json

\* the user message of test_review_report_generation around the JSON of the reviews
ReportPrompt(reviews_json) ==
    "Please generate a review report based on these document reviews:\n" \o reviews_json

ConsentQuestion == "Please upload your Informed Consent Form"

FeedbackQuestions == {
    "Does your research involve human participants?",
    "Will you collect personal data?",
    "Does the research context involve vulnerable populations?",
    "Is a document on vulnerable groups attached?",
    "Is there a conflict of interest?" }

ProtocolUpload ==
    [name |-> "Vulnerable_Populations_Protocol.docx", type |-> "Research Protocol",
     content |-> "This protocol outlines the procedures for working with vulnerable populations in our research."]

UserContents ==
    {ReviewPrompt(ConsentQuestion, "Informed_Consent_Form.docx", "Consent Form",
                  CompleteConsentForm),
     ReviewPrompt(ConsentQuestion, "random_notes.txt", "Supporting Document",
                  "my shopping list"),
     ReviewPrompt("Storage retention sharing", "random_notes.txt", "Supporting Document",
                  "Storage. Retention. "),
     ReviewPrompt("Describe the research context", "Research_Protocol.docx",
                  "Research Protocol", "Method")}
    \cup {FeedbackPrompt(q, r, <<>>) : q \in FeedbackQuestions, r \in {"YES", "NO"}}
    \cup {FeedbackPrompt("Does your research involve vulnerable populations?", "YES",
                         <<ProtocolUpload>>),
          FeedbackPrompt("Does your research involve human participants?", "NO",
                         <<ProtocolUpload>>)}
    \cup {TestFeedbackPrompt(q, r) :
            q \in {"Does your research involve human participants?",
                   "Will you collect personal data?"},
            r \in {"YES", "NO"}}
    \cup {ContextPrompt("{\"title\": \"Effects of Social Media on Mental Health\"}"),
          ContextPrompt("{\"title\": \"Impact of Educational Interventions\"}")}
    \cup {ReportPrompt(j) : j \in {ReviewsJsonEmpty, ReviewsJsonOne, ReviewsJsonTwo,
                                   ReviewsJsonBroken}}
    \cup {"Question: Shall we generate a review report?\nResponse: YES",
          "Hello",
          ""}

PlainSystem ==
    "You are a research ethics expert providing feedback on ethics checklist responses."
ReportSystem == "You are a review report generator for ethics applications."

Msg(role, content) == [role |-> role, content |-> content]

\* the message lists handed to get_completion
Requests ==
    {<<Msg("user", u)>> : u \in UserContents}
    \cup {<<Msg("system", sys), Msg("user", u)>> :
            sys \in {PlainSystem, ReportSystem, ""}, u \in UserContents}
    \cup {<<>>,
          <<Msg("system", PlainSystem)>>,
          <<Msg("user", "Hello"), Msg("assistant", "Hi"), Msg("user", ContextPrompt("{}"))>>,
          <<Msg("system", ReportSystem), Msg("system", PlainSystem),
            Msg("user", ReportPrompt(ReviewsJsonOne))>>,
          <<[content |-> "Hello"]>>,
          <<Msg("user", "Hello"), Msg("user", "")>>,
          <<Msg("system", ReportSystem), Msg("assistant", "Hi")>>,
          <<[role |-> "assistant"], Msg("user", "Hello")>>,
          <<[role |-> "system"], Msg("user", "Hello")>>,
          <<Msg("user", "Hello"), [role |-> "user"]>>}

-----------------------------------------------------------------------------
(* Spec: calls of get_completion                                           *)

Init ==
    /\ messages = <<>>
    /\ retries = 0
    /\ sleeps = <<>>
    /\ pc = "idle"
    /\ handler = ""
    /\ in_question = ""
    /\ in_name = ""
    /\ in_content = ""
    /\ in_response = ""
    /\ result = None
    /\ previous = None
    /\ AppAtRest

RECURSIVE Pow2(_)
Pow2(n) == IF n = 0 THEN 1 ELSE 2 * Pow2(n - 1)

\* a caller invokes get_completion(messages): retries = 0
Call ==
    /\ pc = "idle"
    /\ \E msgs \in Requests : messages' = msgs
    /\ retries' = 0
    /\ sleeps' = <<>>
    /\ pc' = "loop"
    /\ handler' = ""
    /\ in_question' = ""
    /\ in_name' = ""
    /\ in_content' = ""
    /\ in_response' = ""
    /\ result' = None
    /\ previous' = None
    /\ UNCHANGED appVars

\* a pass through the try block that reaches one of its return statements
AttemptReturns ==
    /\ pc = "loop"
    /\ retries < max_retries
    /\ ~AttemptRaises(messages)
    /\ \E now \in 1..MaxClock :
        LET t == TryBlock(messages, now)
        IN  /\ handler' = t.handler
            /\ in_question' = t.args.question
            /\ in_name' = t.args.doc_name
            /\ in_content' = t.args.doc_content
            /\ in_response' = t.args.response
            /\ result' = t.value
    /\ pc' = "done"
    /\ UNCHANGED <<messages, retries, sleeps, previous>>
    /\ UNCHANGED appVars

\* a pass that raises with no except block around it: the exception leaves
\* get_completion and the caller has no value
AttemptFailsPropagating ==
    /\ pc = "loop"
    /\ retries < max_retries
    /\ AttemptRaises(messages)
    /\ pc' = "done"
    /\ handler' = "raised"
    /\ UNCHANGED <<messages, retries, sleeps, in_question, in_name, in_content, in_response,
                   result, previous>>
    /\ UNCHANGED appVars

\* a pass that raises, with the sleep taken after the last failure as well
AttemptFailsSleepingAlways ==
    /\ pc = "loop"
    /\ retries < max_retries
    /\ AttemptRaises(messages)
    /\ retries' = retries + 1
    /\ sleeps' = Append(sleeps, backoff_factor * Pow2(retries + 1))
    /\ UNCHANGED <<messages, pc, handler, in_question, in_name, in_content, in_response,
                   result, previous>>
    /\ UNCHANGED appVars

\* a pass that raises: the except block counts it and sleeps if a pass follows
AttemptFails ==
    /\ pc = "loop"
    /\ retries < max_retries
    /\ AttemptRaises(messages)
    /\ retries' = retries + 1
    /\ sleeps' = IF retries + 1 < max_retries
                 THEN Append(sleeps, backoff_factor * Pow2(retries + 1))
                 ELSE sleeps
    /\ UNCHANGED <<messages, pc, handler, in_question, in_name, in_content, in_response,
                   result, previous>>
    /\ UNCHANGED appVars

\* the while condition fails: "All retry attempts failed"
GiveUp ==
    /\ pc = "loop"
    /\ retries >= max_retries
    /\ pc' = "done"
    /\ handler' = "unavailable"
    /\ result' = ServiceUnavailable
    /\ UNCHANGED <<messages, retries, sleeps, in_question, in_name, in_content, in_response,
                   previous>>
    /\ UNCHANGED appVars

\* the caller has the value; the engine keeps nothing of the call
Return ==
    /\ pc = "done"
    /\ pc' = "idle"
    /\ messages' = <<>>
    /\ retries' = 0
    /\ sleeps' = <<>>
    /\ handler' = ""
    /\ in_question' = ""
    /\ in_name' = ""
    /\ in_content' = ""
    /\ in_response' = ""
    /\ result' = None
    /\ previous' = None
    /\ UNCHANGED appVars

\* the caller keeps the value and calls get_completion(messages) once more with
\* the same list
CallAgain ==
    /\ pc = "done"
    /\ previous = None
    /\ previous' = result
    /\ pc' = "loop"
    /\ retries' = 0
    /\ sleeps' = <<>>
    /\ handler' = ""
    /\ in_question' = ""
    /\ in_name' = ""
    /\ in_content' = ""
    /\ in_response' = ""
    /\ result' = None
    /\ UNCHANGED messages
    /\ UNCHANGED appVars

Next == Call \/ AttemptReturns \/ AttemptFails \/ GiveUp \/ Return \/ CallAgain

Spec == Init /\ [][Next]_vars

-----------------------------------------------------------------------------
(* RetrySpec: the retry loop of get_completion on short message lists      *)

\* the longest list of records
MaxMessages == 2

\* records with and without the keys the loop reads
ShortRecords ==
    {Msg("user", "Hello"), Msg("user", ""), Msg("system", "Be brief"),
     Msg("assistant", "Hi"), [content |-> "Hello"], [role |-> "user"], [role |-> "system"]}

ShortRequests == UNION {[1..n -> ShortRecords] : n \in 0..MaxMessages}

\* a caller invokes get_completion(messages) with a short list
CallShort ==
    /\ pc = "idle"
    /\ \E msgs \in ShortRequests : messages' = msgs
    /\ retries' = 0
    /\ sleeps' = <<>>
    /\ pc' = "loop"
    /\ handler' = ""
    /\ in_question' = ""
    /\ in_name' = ""
    /\ in_content' = ""
    /\ in_response' = ""
    /\ result' = None
    /\ previous' = None
    /\ UNCHANGED appVars

RetryNext == CallShort \/ AttemptReturns \/ AttemptFails \/ GiveUp \/ Return \/ CallAgain

\* get_completion is sequential code: once called, each pass of its loop and the
\* return after the loop are taken; when the caller calls is left open
RetrySpec ==
    /\ Init
    /\ [][RetryNext]_vars
    /\ WF_vars(AttemptReturns)
    /\ WF_vars(AttemptFails)
    /\ WF_vars(GiveUp)

\* get_completion has returned from a pass through the try block with a user message
Answered == pc = "done" /\ handler \notin {"", "unavailable", "no_user_message"}

UserMessage == LastOfRole(messages, "user").content
SystemMessage == LastOfRole(messages, "system")

HasContentMarker == Contains(UserMessage, "Document Content Preview:")
HasContextMarker == Contains(Lower(UserMessage), "research context")
HasFeedbackMarkers == Contains(UserMessage, "Question:") /\ Contains(UserMessage, "Response:")
SystemHasReportMarker ==
    SystemMessage.found /\ Contains(Lower(SystemMessage.content), "review report")
UserHasReportMarker == Contains(Lower(UserMessage), "generate a review report")

\* C8: get_completion handles the user message by the first test that holds, in
\* the order document review, context analysis, question feedback, report
\* generation: a message that passes several tests is handled by the earliest
\* only, and one that passes none (no review-report marker in the system or the
\* user message either) gets the fixed fallback string, not an error.
C8_FirstMatchWins ==
    Answered =>
        /\ HasContentMarker =>
                /\ handler = "_generate_document_review"
                /\ result = _generate_document_review(in_content, in_question, in_name)
        /\ (~HasContentMarker /\ HasContextMarker) =>
                /\ handler = "_generate_research_context_analysis"
                /\ result = Text(ResearchContextAnalysisText)
        /\ (~HasContentMarker /\ ~HasContextMarker /\ HasFeedbackMarkers) =>
                /\ handler = "_generate_question_feedback"
                /\ result = _generate_question_feedback(in_question, in_response)
        /\ (~HasContentMarker /\ ~HasContextMarker /\ ~HasFeedbackMarkers
                /\ SystemHasReportMarker) =>
                /\ handler = "_generate_review_report"
                /\ result.kind = "report"
        /\ (~HasContentMarker /\ ~HasContextMarker /\ ~HasFeedbackMarkers
                /\ ~SystemHasReportMarker /\ ~UserHasReportMarker) =>
                /\ handler = "default"
                /\ result = Text(DefaultResponseText)

\* C8 witness: a Question:/Response: message that also contains 'research context'
\* was answered with the context analysis narrative
C8_Witness ==
    /\ Answered
    /\ HasFeedbackMarkers
    /\ HasContextMarker
    /\ ~HasContentMarker
    /\ result = Text(ResearchContextAnalysisText)

\* C9 as stated: get_completion takes the document review path only when the user
\* message contains both 'Document Content Preview:' and 'Ethics Question:'.
C9_ReviewNeedsBothMarkers ==
    (Answered /\ handler = "_generate_document_review") =>
        /\ Contains(UserMessage, "Document Content Preview:")
        /\ Contains(UserMessage, "Ethics Question:")

\* C10 as stated: a message that passes none of the first three tests takes the
\* report generation path whenever the review-report marker is in the system
\* message or in the user message.
C10_ReportMarkerInEitherMessage ==
    (Answered /\ ~HasContentMarker /\ ~HasContextMarker /\ ~HasFeedbackMarkers
        /\ (SystemHasReportMarker \/ UserHasReportMarker)) =>
        handler = "_generate_review_report"

\* every record of the list has the two keys the loop reads
RecordsComplete ==
    \A i \in 1..Len(messages) :
        "role" \in DOMAIN messages[i] /\ "content" \in DOMAIN messages[i]

\* no record of the list is a user message with content
NoUserContent ==
    \A i \in 1..Len(messages) : messages[i].role = "user" => messages[i].content = ""

\* C11: a list of complete records with no user-role message, or with user
\* messages of empty content only, is answered with the object {status: ERROR,
\* message: 'No user message found in the conversation.'} by the first pass:
\* no retry, no sleep, no exception.
C11_NoUserMessageIsAnErrorObject ==
    (pc = "done" /\ RecordsComplete /\ NoUserContent) =>
        /\ result = NoUserMessage
        /\ handler = "no_user_message"
        /\ retries = 0
        /\ sleeps = <<>>

\* C11 witness: a list whose only user message is empty was answered with the
\* error object
C11_Witness ==
    /\ pc = "done"
    /\ RecordsComplete
    /\ \E i \in 1..Len(messages) : messages[i].role = "user" /\ messages[i].content = ""
    /\ NoUserContent
    /\ result = NoUserMessage
    /\ retries = 0

\* some record lacks a key the loop reads of it
SomeRecordFaulty ==
    \E i \in 1..Len(messages) :
        IF "role" \notin DOMAIN messages[i] THEN TRUE
        ELSE messages[i].role \in {"user", "system"} /\ "content" \notin DOMAIN messages[i]

\* C12: get_completion returns a value for every input and lets no exception
\* out: a call that has ended has ended with a value, and a list with a malformed
\* record, on which each pass raises internally, ends after max_retries failed
\* passes with the object {status: ERROR, message: 'AI service unavailable.
\* Please try again later.'}; no list of complete records uses up the retries.
C12_EveryCallReturnsAValue ==
    /\ pc \in {"idle", "loop", "done"}
    /\ pc = "done" =>
            /\ result # None
            /\ result.kind \in {"text", "verdict", "report", "error"}
            /\ SomeRecordFaulty => (result = ServiceUnavailable /\ retries = max_retries)
    /\ (pc = "loop" /\ retries = max_retries) => SomeRecordFaulty

\* C12 witness: a list with a record lacking 'role' was answered with the
\* service-unavailable object
C12_Witness ==
    /\ pc = "done"
    /\ \E i \in 1..Len(messages) : "role" \notin DOMAIN messages[i]
    /\ result = ServiceUnavailable

\* C13: the retry loop terminates; it makes at most max_retries passes, sleeps
\* backoff_factor * 2^k after the k-th failed pass only when another pass follows
\* (max_retries - 1 sleeps at most, none after the last failure), and returns the
\* service-unavailable object only after exactly max_retries failed passes.
C13_BoundedRetriesWithBackoff ==
    /\ [](/\ retries \in 0..max_retries
          /\ Len(sleeps) = Min(retries, max_retries - 1)
          /\ \A k \in 1..Len(sleeps) : sleeps[k] = backoff_factor * Pow2(k)
          /\ (pc = "done" /\ result = ServiceUnavailable) => retries = max_retries
          /\ (pc = "done" /\ result # ServiceUnavailable) => retries < max_retries)
    /\ (pc = "loop" ~> pc = "done")

\* C13 witness: three failed passes, two sleeps of 1.0 s and 2.0 s, then the
\* service-unavailable object
C13_Witness ==
    /\ pc = "done"
    /\ retries = max_retries
    /\ sleeps = <<2 * backoff_factor, 4 * backoff_factor>>
    /\ result = ServiceUnavailable

\* the caller has the values of two calls with the same messages
CalledTwice == pc = "done" /\ previous # None

\* a returned value without its clock reading
Unstamped(value) ==
    IF value.kind = "report" THEN [value EXCEPT !.generated_at = 0] ELSE value

\* C14 as stated: two calls of get_completion with identical message lists return
\* identical values on every path: the value depends on no clock.
C14_SameInputSameOutput == CalledTwice => result = previous

\* C14 amended: two calls with identical message lists return identical values
\* on every path but report generation, where the two values are identical up to
\* generated_at, the reading of the clock; nothing else of a call reaches the
\* next.
C14_SameOutputUpToTimestamp ==
    CalledTwice =>
        /\ Unstamped(result) = Unstamped(previous)
        /\ result.kind # "report" => result = previous

\* C14 witness: two report requests with the same messages, answered at different
\* times with the same report text
C14_Witness ==
    /\ CalledTwice
    /\ result.kind = "report"
    /\ previous.kind = "report"
    /\ result.generated_at # previous.generated_at
    /\ result.report = previous.report

\* the records of the role, at most the last one
LastRecordOf(role) ==
    LET at == {i \in 1..Len(messages) : messages[i].role = role}
    IN  IF at = {} THEN <<>>
        ELSE <<messages[CHOOSE i \in at : \A j \in at : j <= i]>>

\* C15: of several user-role and several system-role messages get_completion uses
\* the last user message and the last system message in list order only: the
\* value returned is the one returned for the list of these two alone.
C15_OnlyLastUserAndLastSystem ==
    (pc = "done" /\ RecordsComplete) =>
        \E now \in 1..MaxClock :
            result = TryBlock(LastRecordOf("system") \o LastRecordOf("user"), now).value

\* C15 witness: a list with two different user messages was answered as its last
\* user message is, and not as its first is
C15_Witness ==
    /\ pc = "done"
    /\ RecordsComplete
    /\ \E i, j \in 1..Len(messages) :
            /\ i < j
            /\ messages[i].role = "user"
            /\ messages[j].role = "user"
            /\ result = TryBlock(<<messages[j]>>, 1).value
            /\ result # TryBlock(<<messages[i]>>, 1).value

-----------------------------------------------------------------------------
(* FeedbackSpec: _generate_question_feedback applied to a question and a response *)

NarratorQuestions ==
    {"Does your research involve human participants?",
     "Will you collect personal data from human participants?",
     "Will you collect personal data?",
     "Is personal data of vulnerable groups in the document?",
     "Do HUMAN PARTICIPANTS appear in a document on vulnerable groups?",
     "Is a document on vulnerable groups attached?",
     "Is a DOCUMENT about Vulnerable adults attached?",
     "Does your research involve vulnerable populations?",
     "Is a document attached?",
     "Is there a conflict of interest?",
     ""}

NarratorResponses ==
    {"YES", "yes", " Yes\n", "NO", "N/A", "", "YES please", "Y E S",
     "YES\n\nPlease provide specific feedback on this ethics question response."}

FeedbackInit ==
    /\ messages = <<>>
    /\ retries = 0
    /\ sleeps = <<>>
    /\ pc = "idle"
    /\ handler = ""
    /\ in_question \in NarratorQuestions
    /\ in_name = ""
    /\ in_content = ""
    /\ in_response \in NarratorResponses
    /\ result = None
    /\ previous = None
    /\ AppAtRest

GenerateQuestionFeedback ==
    /\ pc = "idle"
    /\ pc' = "done"
    /\ handler' = "_generate_question_feedback"
    /\ result' = _generate_question_feedback(in_question, in_response)
    /\ UNCHANGED <<messages, retries, sleeps, in_question, in_name, in_content, in_response,
                   previous>>
    /\ UNCHANGED appVars

\* the caller takes the feedback and asks for it again
FeedbackAgain ==
    /\ pc = "done"
    /\ pc' = "idle"
    /\ handler' = ""
    /\ result' = None
    /\ UNCHANGED <<messages, retries, sleeps, in_question, in_name, in_content, in_response,
                   previous>>
    /\ UNCHANGED appVars

FeedbackNext == GenerateQuestionFeedback \/ FeedbackAgain

FeedbackSpec == FeedbackInit /\ [][FeedbackNext]_vars

\* the narrator has returned
Narrated == pc = "done" /\ handler = "_generate_question_feedback"

AboutHumanParticipants == Contains(Lower(in_question), "human participants")
AboutPersonalData == Contains(Lower(in_question), "personal data")
AboutVulnerableDocument ==
    Contains(Lower(in_question), "vulnerable") /\ Contains(Lower(in_question), "document")
SaysYes == Strip(Upper(in_response)) = "YES"

\* C16: the question feedback narrator tests 'human participants', then 'personal
\* data', then 'vulnerable' with 'document', and is generic otherwise: a question
\* matching several is handled by the earliest; in the first two branches the YES
\* template is returned iff the response is YES after trimming and case
\* normalisation and the other template otherwise; every pair gets an output.
C16_NarratorBranchOrder ==
    Narrated =>
        /\ result.kind \in {"text", "verdict"}
        /\ AboutHumanParticipants =>
                result = Text(IF SaysYes THEN HumanParticipantsYesText
                              ELSE HumanParticipantsNoText)
        /\ (~AboutHumanParticipants /\ AboutPersonalData) =>
                result = Text(IF SaysYes THEN PersonalDataYesText ELSE PersonalDataNoText)
        /\ (~AboutHumanParticipants /\ ~AboutPersonalData /\ AboutVulnerableDocument) =>
                result.kind = "verdict"
        /\ (~AboutHumanParticipants /\ ~AboutPersonalData /\ ~AboutVulnerableDocument) =>
                result = Text(GenericFeedbackText(in_question, in_response))
        /\ HumanParticipantsYesText # HumanParticipantsNoText
        /\ PersonalDataYesText # PersonalDataNoText

\* C16 witness: a question about personal data from human participants, answered
\* ' Yes' with a line end, got the YES template of the human participants branch
C16_Witness ==
    /\ Narrated
    /\ AboutHumanParticipants
    /\ AboutPersonalData
    /\ in_response = " Yes\n"
    /\ result = Text(HumanParticipantsYesText)

\* C18: for a question containing 'vulnerable' and 'document' in any case and
\* neither 'human participants' nor 'personal data', the narrator returns for any
\* response the fixed object with status ANALYZING and compliance_score 80, not
\* text.
C18_VulnerableDocumentObject ==
    (Narrated /\ AboutVulnerableDocument /\ ~AboutHumanParticipants /\ ~AboutPersonalData) =>
        /\ result.kind = "verdict"
        /\ result.status = "ANALYZING"
        /\ result.compliance_score = 80
        /\ result = VulnerableDocumentVerdict

\* C18 witness: the question 'Is a DOCUMENT about Vulnerable adults attached?',
\* answered NO, got the object
C18_Witness ==
    /\ Narrated
    /\ in_question = "Is a DOCUMENT about Vulnerable adults attached?"
    /\ in_response = "NO"
    /\ result.kind = "verdict"
    /\ result.compliance_score = 80

\* the user message asks for feedback on the human participants question
\* answered YES, with instruction text after the response
HumanParticipantsAnsweredYes ==
    /\ Contains(UserMessage, "Question: Does your research involve human participants?")
    /\ Contains(UserMessage, "Response: YES\n")
    /\ Contains(UserMessage, "Please provide specific")

\* C17 as stated: for a question feedback message 'Question: Does your research
\* involve human participants?', 'Response: YES' and further instruction text,
\* the response handed to the narrator is YES and the value returned is the YES
\* template, not the 'does not involve human participants' template.
C17_YesResponseGetsYesTemplate ==
    (Answered /\ handler = "_generate_question_feedback" /\ HumanParticipantsAnsweredYes) =>
        /\ in_response = "YES"
        /\ result = Text(HumanParticipantsYesText)

\* C19: the context analysis narrator is constant: every user message handled
\* on the context analysis path, whatever its content, gets the same fixed
\* narrative string, and so do any two of them.
C19_ContextNarrativeIsConstant ==
    (pc = "done" /\ handler = "_generate_research_context_analysis") =>
        /\ result.kind = "text"
        /\ result.text = ResearchContextAnalysisText
        /\ ~Contains(result.text, "{")
        /\ previous # None => previous = result

\* C19 witness: a context request about another study than the first one got the
\* fixed narrative
C19_Witness ==
    /\ pc = "done"
    /\ handler = "_generate_research_context_analysis"
    /\ Contains(UserMessage, "Impact of Educational Interventions")
    /\ result = Text(ResearchContextAnalysisText)

\* the report composer has returned
Reported == pc = "done" /\ handler = "_generate_review_report"

\* the entries of the reviews map the composer was given, in input order
ReportedReviews == ExtractReviews(UserMessage)

\* the entries whose value is an object
ReportedObjects == SelectSeq(ReportedReviews, LAMBDA e : "json_scalar" \notin DOMAIN e.review)

\* the number of per-document subsections of the report
Subsections ==
    LET head == "### Document ID: "
    IN  Cardinality({i \in 1..(Len(result.report) - Len(head) + 1) :
                        SubSeq(result.report, i, i + Len(head) - 1) = head})

HasPlaceholder == Contains(result.report, "No document reviews are available")

\* where the subsection of an entry starts in the report (-1: nowhere)
SubsectionAt(entry) == Find(result.report, "### Document ID: " \o entry.doc_id \o "\n")

-----------------------------------------------------------------------------
(* The generic scorer, seen through the reviews of supporting documents    *)

\* the generic scorer produced the verdict: the gate passed and no typed scorer
\* applies to the actual type
GenericScored ==
    /\ Reviewed
    /\ ActualType = "Supporting Document"
    /\ _is_document_relevant(ExpectedType, ActualType, in_content, in_question)

\* the words of the question the generic scorer counts: longer than 3, no stop
\* word and not "research"
GenericWords ==
    LET words == Split(Lower(in_question))
    IN  SelectSeq(words, LAMBDA w : Len(w) > 3 /\ w \notin StopWords /\ w # "research")

\* how many of them occur in the text, case ignored
GenericMatched ==
    Cardinality({i \in 1..Len(GenericWords) :
                    Contains(Lower(in_content), GenericWords[i])})

\* status, bounds and missing_elements as the generic scorer sets them from the score
GenericVerdictFollowsScore ==
    /\ result.compliance_score \in 0..100
    /\ (result.status = "APPROVED") <=> (result.compliance_score >= 80)
    /\ (result.status = "ANALYZING") <=>
            (result.compliance_score >= 60 /\ result.compliance_score < 80)
    /\ (result.status = "NEEDS_REVISION") <=> (result.compliance_score < 60)
    /\ (result.missing_elements # <<>>) <=> (result.compliance_score < 60)

C21_NeutralDefault ==
    GenericScored /\ Len(GenericWords) = 0 /\ result.compliance_score = 50

-----------------------------------------------------------------------------
(* Complete and empty consent forms                                        *)

\* the consent form scorer produced the verdict: the actual type is Consent Form
\* and the gate passed
ConsentFormScored ==
    /\ Reviewed
    /\ ActualType = "Consent Form"
    /\ _is_document_relevant(ExpectedType, ActualType, in_content, in_question)

\* the consent-form categories with a keyword in the text, case ignored
ConsentCategoriesFound ==
    {i \in 1..Len(ConsentFormElements) :
        \E k \in 1..Len(ConsentFormElements[i].keywords) :
            Contains(Lower(in_content), Lower(ConsentFormElements[i].keywords[k]))}

\* C22: a document classified and scored as a consent form whose text holds a
\* keyword of each of the 8 categories gets compliance_score 100, APPROVED, empty
\* missing_elements and empty recommendations; one that holds no keyword of any
\* category gets score 0, NEEDS_REVISION and all 8 categories missing in table
\* order.
C22_CompleteAndEmptyConsentForms ==
    ConsentFormScored =>
        /\ Len(ConsentFormElements) = 8
        /\ ConsentCategoriesFound = 1..8 =>
                /\ result.compliance_score = 100
                /\ result.status = "APPROVED"
                /\ result.missing_elements = <<>>
                /\ result.recommendations = <<>>
        /\ ConsentCategoriesFound = {} =>
                /\ result.compliance_score = 0
                /\ result.status = "NEEDS_REVISION"
                /\ result.missing_elements =
                        <<"research purpose", "procedures", "risks", "benefits",
                          "confidentiality", "voluntary", "withdrawal", "contact">>

\* C22 witness: the complete consent form, under a consent form's name, is approved
\* with score 100
C22_Witness ==
    /\ ConsentFormScored
    /\ in_content = CompleteConsentForm
    /\ ConsentCategoriesFound = 1..8
    /\ result.compliance_score = 100
    /\ result.status = "APPROVED"

\* an empty text scored as a consent form
C22_EmptyFormScored ==
    /\ ConsentFormScored
    /\ in_content = ""
    /\ result.compliance_score = 0
    /\ Len(result.missing_elements) = 8

-----------------------------------------------------------------------------
(* The inference of the expected document type                             *)

\* the six document types of the data model
DocumentTypes == {"Consent Form", "Research Protocol", "Ethics Committee Application Form",
                  "CV/Resume", "Survey/Questionnaire", "Supporting Document"}

\* the phrase rules in their priority order
PhraseRules == <<
    [phrases |-> {"consent", "informed consent"}, type |-> "Consent Form"],
    [phrases |-> {"protocol", "research protocol", "study protocol"},
     type |-> "Research Protocol"],
    [phrases |-> {"ethics committee application", "ethics application", "application form"},
     type |-> "Ethics Committee Application Form"],
    [phrases |-> {"cv", "resume", "curriculum vitae"}, type |-> "CV/Resume"],
    [phrases |-> {"survey", "questionnaire"}, type |-> "Survey/Questionnaire"] >>

\* the rules with a phrase in the text, case ignored
RulesMatching(text) ==
    {i \in 1..Len(PhraseRules) : \E p \in PhraseRules[i].phrases : Contains(Lower(text), p)}

\* the type of the first matching rule, Supporting Document when none matches
FirstMatchType(text) ==
    LET hits == RulesMatching(text)
    IN  IF hits = {} THEN "Supporting Document"
        ELSE PhraseRules[CHOOSE i \in hits : \A j \in hits : i <= j].type

\* C23: the expected type is the type of the first rule, in the order consent,
\* protocol, ethics application, CV/resume, survey/questionnaire, with a phrase in
\* the lower-cased question, and Supporting Document when no rule matches; a
\* question containing "study protocol" (and no consent phrase) is a Research
\* Protocol question; the type is always one of the six document types, and it is
\* the type the irrelevant-document verdict asks the user to upload.
C23_ExpectedTypeFirstMatchWins ==
    Reviewed =>
        /\ ExpectedType = FirstMatchType(in_question)
        /\ ExpectedType \in DocumentTypes
        /\ (Contains(Lower(in_question), "study protocol")
                /\ ~Contains(Lower(in_question), "consent"))
            => ExpectedType = "Research Protocol"
        /\ IsShortCircuit(result) =>
                result.recommendations[1] =
                    "Upload a " \o FirstMatchType(in_question)
                        \o " that specifically addresses this question"

\* C23 witness: a question with a consent, a protocol and a survey phrase is a
\* consent form question, and the verdict on an unrelated document asks for a
\* Consent Form
C23_Witness ==
    /\ Reviewed
    /\ RulesMatching(in_question) = {1, 2, 5}
    /\ ExpectedType = "Consent Form"
    /\ IsShortCircuit(result)
    /\ result.recommendations[1] =
            "Upload a Consent Form that specifically addresses this question"

\* a "study protocol" question reviewed as a Research Protocol question
C23_StudyProtocolQuestion ==
    /\ Reviewed
    /\ in_question = "Attach the study protocol"
    /\ ExpectedType = "Research Protocol"

-----------------------------------------------------------------------------
(* The inference of the actual document type                               *)

\* `word` occurs in `text`, case ignored
Has(text, word) == Contains(Lower(text), word)

\* the type the file name alone gives, "" when the name matches no rule
TypeByName(name) ==
    IF Has(name, "consent") THEN "Consent Form"
    ELSE IF Has(name, "protocol") THEN "Research Protocol"
    ELSE IF Has(name, "ethics") /\ (Has(name, "application") \/ Has(name, "committee"))
    THEN "Ethics Committee Application Form"
    ELSE IF Has(name, "cv") \/ Has(name, "resume") \/ Has(name, "curriculum")
    THEN "CV/Resume"
    ELSE IF Has(name, "survey") \/ Has(name, "questionnaire") THEN "Survey/Questionnaire"
    ELSE ""

\* the types whose keyword combination occurs in the document text
TypesByContent(text) ==
    {t \in DocumentTypes :
        \/ t = "Consent Form"
            /\ Has(text, "consent") /\ (Has(text, "voluntary") \/ Has(text, "withdraw"))
        \/ t = "Research Protocol"
            /\ Has(text, "protocol") /\ (Has(text, "methodology") \/ Has(text, "procedure"))
        \/ t = "Ethics Committee Application Form"
            /\ Has(text, "ethics committee") /\ Has(text, "application")
        \/ t = "CV/Resume"
            /\ (Has(text, "education") \/ Has(text, "experience"))
            /\ (Has(text, "skills") \/ Has(text, "qualification"))
        \/ t = "Survey/Questionnaire"
            /\ Has(text, "question") /\ (Has(text, "answer") \/ Has(text, "response"))}

\* the sentence of the irrelevant-document verdict that names the actual type
AppearsToBe(type) == "The document appears to be a " \o type \o ", which does not"

\* C24: when the file name matches a type rule the actual type is the one the name
\* gives, whatever the document text says; the text is consulted only when the
\* name matches no rule, and then the type is one whose keyword combination is in
\* the text; Supporting Document is returned only when neither the name nor the
\* text matches.  The irrelevant-document verdict names that type.
C24_FilenameBeforeContent ==
    Reviewed =>
        /\ TypeByName(in_name) # "" => ActualType = TypeByName(in_name)
        /\ (TypeByName(in_name) = "" /\ TypesByContent(in_content) # {})
                => ActualType \in TypesByContent(in_content)
        /\ ActualType = "Supporting Document"
                <=> (TypeByName(in_name) = "" /\ TypesByContent(in_content) = {})
        /\ IsShortCircuit(result) =>
                LET type == IF TypeByName(in_name) # "" THEN TypeByName(in_name)
                            ELSE IF TypesByContent(in_content) # {}
                            THEN CHOOSE t \in TypesByContent(in_content) : TRUE
                            ELSE "Supporting Document"
                IN  Contains(result.analysis, AppearsToBe(type))

\* C24 witness: a file named as a research protocol whose text reads as a consent
\* form is a Research Protocol, and the irrelevant-document verdict says so
C24_Witness ==
    /\ Reviewed
    /\ TypeByName(in_name) = "Research Protocol"
    /\ TypesByContent(in_content) = {"Consent Form"}
    /\ ActualType = "Research Protocol"
    /\ IsShortCircuit(result)
    /\ Contains(result.analysis, AppearsToBe("Research Protocol"))

\* a file whose name matches no rule takes its type from the text
C24_TypeFromContent ==
    /\ Reviewed
    /\ TypeByName(in_name) = ""
    /\ ActualType = "Consent Form"

-----------------------------------------------------------------------------
(* A document named after the question                                     *)

\* the document reviewed carries the text of the question as its name
NamedAfterQuestion == Reviewed /\ in_name = in_question

\* C25 as stated: a text that gives a non-default type T as the question gives the
\* same type T as the file name, so a document named after the question has the
\* expected type and is never given the irrelevant-document verdict.
C25_NameRulesAreQuestionRules ==
    (NamedAfterQuestion /\ ExpectedType # "Supporting Document") =>
        /\ ActualType = ExpectedType
        /\ ~IsShortCircuit(result)

\* the name rules agree with the question rules on a CV question
C25_AgreesOnCV ==
    /\ NamedAfterQuestion
    /\ ExpectedType = "CV/Resume"
    /\ ActualType = "CV/Resume"
    /\ ~IsShortCircuit(result)

\* the document named "Please attach the application form" is gated as a mismatch
C25_MismatchOnApplicationForm ==
    /\ NamedAfterQuestion
    /\ ExpectedType = "Ethics Committee Application Form"
    /\ ActualType = "Supporting Document"
    /\ IsShortCircuit(result)

-----------------------------------------------------------------------------
(* The scorer a relevant document is sent to                               *)

\* the review passed the relevance gate
ReviewedRelevant ==
    /\ Reviewed
    /\ _is_document_relevant(ExpectedType, ActualType, in_content, in_question)

\* the verdict of the scorer that belongs to a document type
VerdictOfType(type) ==
    CASE type = "Consent Form" -> _analyze_consent_form(in_content)
      [] type = "Research Protocol" -> _analyze_research_protocol(in_content)
      [] type = "Ethics Committee Application Form" ->
            _analyze_ethics_application_form(in_content)
      [] type = "CV/Resume" -> _analyze_cv(in_content)
      [] type = "Survey/Questionnaire" -> _analyze_survey(in_content)
      [] OTHER -> _analyze_generic_document(in_content, in_question, type)

\* C29: the review of a relevant document is the verdict of the scorer of its
\* actual type, whatever the expected type is: each of the five typed actual types
\* has its own scorer, the generic scorer runs exactly when the actual type is
\* Supporting Document, and the actual type is never Study Protocol.
C29_ScorerByActualType ==
    ReviewedRelevant =>
        /\ ActualType \in DocumentTypes
        /\ ActualType # "Study Protocol"
        /\ result = VerdictOfType(ActualType)
        /\ (ScorerFor(ActualType) = "_analyze_generic_document")
                <=> (ActualType = "Supporting Document")

\* C29 witness: a document with a consent form's name passes the gate of a question
\* that expects a supporting document, and its verdict is the consent form
\* scorer's, which differs from the generic scorer's
C29_Witness ==
    /\ ReviewedRelevant
    /\ ExpectedType = "Supporting Document"
    /\ ActualType = "Consent Form"
    /\ result = _analyze_consent_form(in_content)
    /\ result # _analyze_generic_document(in_content, in_question, ActualType)

-----------------------------------------------------------------------------
(* The agent methods that call get_completion                              *)

\* get_completion as its callers see it: the value returned and the branch that
\* produced it.  A pass that raises does so on every pass, so the loop ends with
\* the service-unavailable object.
Completion(msgs, now) ==
    IF AttemptRaises(msgs)
    THEN [handler |-> "unavailable", value |-> ServiceUnavailable]
    ELSE LET t == TryBlock(msgs, now) IN [handler |-> t.handler, value |-> t.value]

\* json.dumps(items) of a list of str
JsonList(items) ==
    "[" \o Join([i \in 1..Len(items) |-> JsonString(items[i])], ", ") \o "]"

\* json.dumps(data, indent=2) of a dict of str given as its [key, value] items
JsonDumpsData(data) ==
    JsonObject([i \in 1..Len(data) |->
                    [key |-> data[i].key, text |-> JsonString(data[i].value)]], "")

\* repr() of a str without quotes or backslashes
Repr(str) == "'" \o str \o "'"

\* str(responses): the checklist responses are the items of the dict in insertion
\* order, [id, question, answer] or [id, question] once the answer was deleted
ReprResponses(responses) ==
    "{" \o Join([i \in 1..Len(responses) |->
                    Repr(responses[i].id) \o ": {'question': " \o Repr(responses[i].question)
                    \o (IF "answer" \in DOMAIN responses[i]
                        THEN ", 'answer': " \o Repr(responses[i].answer) ELSE "")
                    \o "}"], ", ")
    \o "}"

\* str(documents.keys()) if documents else 'No documents uploaded'
ReprDocumentKeys(documents) ==
    IF documents = <<>> THEN "No documents uploaded"
    ELSE "dict_keys(["
         \o Join([i \in 1..Len(documents) |-> Repr(documents[i].id)], ", ") \o "])"

\* the error object an agent method returns
AgentError(message) == [kind |-> "error", status |-> "ERROR", message |-> message]

\* `not result or result == "AI service encountered an error."`
NoResult(value) ==
    IF value.kind = "text" THEN value.text \in {"", "AI service encountered an error."}
    ELSE value.kind = "none"

\* str(e) of the JSONDecodeError json.loads raises on a text whose first character
\* after the leading whitespace cannot begin a JSON value
ExpectingValue(text) ==
    LET pos == Len(text) - Len(Strip(text \o "x")) + 1
        newlines == {i \in 1..pos : CharAt(text, i) = "\n"}
        last == IF newlines = {} THEN 0 ELSE CHOOSE i \in newlines : \A j \in newlines : i >= j
    IN  "Expecting value: line " \o IntToStr(Cardinality(newlines) + 1)
        \o " column " \o IntToStr(pos + 1 - last) \o " (char " \o IntToStr(pos) \o ")"

\* DocumentProcessorAgent._determine_document_type
_determine_document_type(question, filename) ==
    LET filename_lower == Lower(filename)
        question_lower == Lower(question)
        type(text) ==
            IF Contains(text, "consent") THEN "Consent Form"
            ELSE IF Contains(text, "protocol") THEN "Research Protocol"
            ELSE IF Contains(text, "questionnaire") \/ Contains(text, "survey")
            THEN "Survey/Questionnaire"
            ELSE IF Contains(text, "approval") \/ Contains(text, "letter")
            THEN "Approval Letter"
            ELSE IF Contains(text, "cv") \/ Contains(text, "curriculum")
                    \/ Contains(text, "resume")
            THEN "CV/Resume"
            ELSE ""
    IN  IF type(filename_lower) # "" THEN type(filename_lower)
        ELSE IF type(question_lower) # "" THEN type(question_lower)
        ELSE "Supporting Document"

\* content: what the libraries read from the uploaded bytes, as
\* [readable, parts]: the text of each page or paragraph, unless reading raises

\* DocumentProcessorAgent._extract_pdf_text
_extract_pdf_text(content) ==
    IF content.readable
    THEN Join([i \in 1..Len(content.parts) |-> content.parts[i] \o "\n"], "")
    ELSE "[PDF text extraction error]"

\* DocumentProcessorAgent._extract_word_text
_extract_word_text(content) ==
    IF content.readable THEN Join(content.parts, "\n")
    ELSE "[Word document text extraction error]"

\* DocumentProcessorAgent._extract_document_text
_extract_document_text(content, filename) ==
    LET name == Lower(filename)
        EndsWith(suffix) ==
            Len(name) >= Len(suffix)
            /\ SubSeq(name, Len(name) - Len(suffix) + 1, Len(name)) = suffix
    IN  IF EndsWith(".pdf") THEN _extract_pdf_text(content)
        ELSE IF EndsWith(".doc") \/ EndsWith(".docx") THEN _extract_word_text(content)
        ELSE "[Error extracting text from " \o filename \o "]"

\* Each agent method is given in two parts: the messages it hands to
\* get_completion, and the value it returns on get_completion's answer.

ReviewDocumentMessages(content, filename, question) ==
    LET document_text == _extract_document_text(content, filename)
        document_type == _determine_document_type(question, filename)
    IN  <<Msg("system",
              "You are a document review assistant specializing in research ethics "
              \o "documentation.\n"
              \o "                    Analyze the provided document in the context of the related "
              \o "ethics question.\n"
              \o "                    Provide specific feedback on whether the document meets "
              \o "ethical requirements,\n"
              \o "                    identify any missing elements, and suggest improvements."),
          Msg("user",
              ReviewPrompt(question, filename, document_type, document_text))>>

review_document(reply) ==
    IF NoResult(reply)
    THEN AgentError("Document review unavailable due to AI service error.")
    ELSE IF reply.kind = "text"
    THEN IF JsonLoads(reply.text).ok
         THEN [kind |-> "dict", items |-> JsonLoads(reply.text).value]
         ELSE AgentError("Unable to parse AI response for document review.")
    ELSE reply

DocumentRequirementsMessages(question_text) ==
    <<Msg("system",
          "You are an ethics review assistant specializing in research documentation "
          \o "requirements.\n"
          \o "                    Determine what documents are required for the given ethics "
          \o "question and what elements those documents should contain."),
      Msg("user",
          "\n"
          \o "                    Ethics Question: "
          \o question_text
          \o "\n"
          \o "                    \n"
          \o "                    Please determine:\n"
          \o "                    1. If this question requires supporting documentation\n"
          \o "                    2. What type of document is required\n"
          \o "                    3. What specific elements should be included in the "
          \o "document\n"
          \o "                    4. Any formatting or signature requirements\n"
          \o "                    \n"
          \o "                    Format your response as a JSON object with these fields:\n"
          \o "                    - requires_document: true/false\n"
          \o "                    - document_type: The type of document required\n"
          \o "                    - required_elements: List of specific elements that must be "
          \o "included\n"
          \o "                    - format_requirements: List of formatting or signature "
          \o "requirements\n"
          \o "                    ")>>

get_document_requirements(reply) ==
    IF NoResult(reply)
    THEN AgentError("Document requirements unavailable due to AI service error.")
    ELSE IF reply.kind = "text"
    THEN IF JsonLoads(reply.text).ok
         THEN [kind |-> "dict", status |-> "COMPLETED", items |-> JsonLoads(reply.text).value]
         ELSE AgentError("Unable to parse AI response for document requirements.")
    ELSE [reply EXCEPT !.status = "COMPLETED"]

\* requirements: [document_type, required_elements, format_requirements]
ValidateDocumentMessages(document_content, document_name, requirements) ==
    LET document_text == _extract_document_text(document_content, document_name)
        document_type == requirements.document_type
        required_elements == requirements.required_elements
        format_requirements == requirements.format_requirements
    IN  <<Msg("system",
              "You are a document validation assistant specializing in research ethics "
              \o "documentation.\n"
              \o "                    Validate if the provided document meets the specified "
              \o "requirements."),
          Msg("user",
              "\n"
              \o "                    Document Name: "
              \o document_name
              \o "\n"
              \o "                    Document Type: "
              \o document_type
              \o "\n"
              \o "                    \n"
              \o "                    Document Content Preview:\n"
              \o "                    "
              \o document_text
              \o "\n"
              \o "                    \n"
              \o "                    Required Elements:\n"
              \o "                    "
              \o JsonList(required_elements)
              \o "\n"
              \o "                    \n"
              \o "                    Format Requirements:\n"
              \o "                    "
              \o JsonList(format_requirements)
              \o "\n"
              \o "                    \n"
              \o "                    Please validate this document and provide:\n"
              \o "                    1. Whether the document is valid for its intended purpose\n"
              \o "                    2. Which required elements are present\n"
              \o "                    3. Which required elements are missing\n"
              \o "                    4. Specific feedback for improvement\n"
              \o "                    5. A status determination (APPROVED, ANALYZING, or "
              \o "NEEDS_REVISION)\n"
              \o "                    \n"
              \o "                    Format your response as a JSON object with these fields:\n"
              \o "                    - valid: true/false\n"
              \o "                    - present_elements: List of required elements that are "
              \o "present\n"
              \o "                    - missing_elements: List of required elements that are "
              \o "missing\n"
              \o "                    - format_issues: List of any format requirement issues\n"
              \o "                    - feedback: Detailed feedback for improvement\n"
              \o "                    - status: \"APPROVED\", \"ANALYZING\", or \"NEEDS_REVISION\"\n"
              \o "                    ")>>

validate_document(reply) ==
    IF NoResult(reply)
    THEN AgentError("Document validation unavailable due to AI service error.")
    ELSE IF reply.kind = "text"
    THEN IF JsonLoads(reply.text).ok
         THEN [kind |-> "dict", items |-> JsonLoads(reply.text).value]
         ELSE AgentError("Unable to parse AI response for document validation.")
    ELSE reply

ResearchRisksMessages(research_data) ==
    <<Msg("system",
          "You are an ethics risk assessment specialist. Analyze the provided research \n"
          \o "                    data to identify potential ethical risks and provide "
          \o "recommendations."),
      Msg("user",
          "\n"
          \o "                    Research Data:\n"
          \o "                    "
          \o JsonDumpsData(research_data)
          \o "\n"
          \o "                    \n"
          \o "                    Please analyze this research proposal for potential ethical "
          \o "risks in these categories:\n"
          \o "                    1. Participant safety and wellbeing\n"
          \o "                    2. Data privacy and security\n"
          \o "                    3. Informed consent\n"
          \o "                    4. Vulnerable populations\n"
          \o "                    5. Conflicts of interest\n"
          \o "                    6. Research integrity\n"
          \o "                    \n"
          \o "                    For each identified risk:\n"
          \o "                    - Provide a risk level (Low, Medium, High)\n"
          \o "                    - Explain the potential impact\n"
          \o "                    - Suggest mitigation strategies\n"
          \o "                    \n"
          \o "                    Return your analysis as a structured JSON object.\n"
          \o "                    ")>>

analyze_research_risks(reply) ==
    IF NoResult(reply)
    THEN AgentError("Risk analysis unavailable due to AI service error.")
    ELSE IF reply.kind = "text"
    THEN IF JsonLoads(reply.text).ok
         THEN [kind |-> "dict", status |-> "COMPLETED", items |-> JsonLoads(reply.text).value]
         ELSE [kind |-> "dict", status |-> "COMPLETED", analysis |-> reply.text]
    ELSE [reply EXCEPT !.status = "COMPLETED"]

ApplicationCompletenessMessages(application_data) ==
    LET required_fields == <<"researcher_name", "project_title", "institution",
                             "research_summary", "start_date", "end_date">>
    IN  <<Msg("system",
              "You are an ethics application validator. Analyze the provided application \n"
              \o "                    data to determine if it's complete and ready for review."),
          Msg("user",
              "\n"
              \o "                    Application Data:\n"
              \o "                    "
              \o JsonDumpsData(application_data)
              \o "\n"
              \o "                    \n"
              \o "                    Required Fields:\n"
              \o "                    "
              \o JsonList(required_fields)
              \o "\n"
              \o "                    \n"
              \o "                    Please analyze this application and determine:\n"
              \o "                    1. If all required fields are completed\n"
              \o "                    2. If all required documents are attached\n"
              \o "                    3. If all questions have been answered\n"
              \o "                    4. The overall completeness percentage\n"
              \o "                    5. Any specific issues that need to be addressed\n"
              \o "                    \n"
              \o "                    Return your analysis as a structured JSON object with these "
              \o "fields:\n"
              \o "                    - is_complete: true/false\n"
              \o "                    - completion_percentage: number from 0-100\n"
              \o "                    - missing_fields: list of missing required fields\n"
              \o "                    - missing_documents: list of missing required documents\n"
              \o "                    - unanswered_questions: list of unanswered questions\n"
              \o "                    - recommendations: list of specific recommendations to "
              \o "complete the application\n"
              \o "                    ")>>

check_application_completeness(reply) ==
    IF NoResult(reply)
    THEN AgentError("Application completeness check unavailable due to AI service error.")
    ELSE IF reply.kind = "text"
    THEN IF JsonLoads(reply.text).ok
         THEN [kind |-> "dict", status |-> "COMPLETED", items |-> JsonLoads(reply.text).value]
         ELSE AgentError("Unable to parse AI response for application completeness check.")
    ELSE [reply EXCEPT !.status = "COMPLETED"]

\* questions: what load_ethics_checklist reads from the checklist file
ResearchContextMessages(research_data, questions) ==
    <<Msg("system",
          "You are an ethics review assistant. Analyze the research context and ethics "
          \o "questions \n"
          \o "                    to determine which questions are relevant and mandatory."),
      Msg("user",
          "\n"
          \o "                    Research Context:\n"
          \o "                    "
          \o JsonDumpsData(research_data)
          \o "\n"
          \o "                    \n"
          \o "                    Ethics Questions:\n"
          \o "                    "
          \o JsonArray(questions, "")
          \o "\n"
          \o "                    \n"
          \o "                    For each question determine:\n"
          \o "                    1. If it's a mandatory/core question (required for all "
          \o "research)\n"
          \o "                    2. If it's field-specific and relevant to this research\n"
          \o "                    3. If it requires document upload\n"
          \o "                    4. If it should be included based on the research context\n"
          \o "                    \n"
          \o "                    Return the analysis in this JSON format:\n"
          \o "                    {\n"
          \o "                        \"mandatory\": [\n"
          \o "                            {\n"
          \o "                                \"id\": \"question_id\",\n"
          \o "                                \"question\": \"question_text\",\n"
          \o "                                \"requires_document\": true/false\n"
          \o "                            }\n"
          \o "                        ],\n"
          \o "                        \"field_specific\": [\n"
          \o "                            {\n"
          \o "                                \"id\": \"question_id\",\n"
          \o "                                \"question\": \"question_text\",\n"
          \o "                                \"requires_document\": true/false,\n"
          \o "                                \"relevant\": true/false\n"
          \o "                            }\n"
          \o "                        ]\n"
          \o "                    }\n"
          \o "                    ")>>

\* DocumentProcessorAgent._format_questions: the lists of an answer that parses
\* (none of the engine's answers carries a question), or the error object of its
\* except block
_format_questions(ai_analysis) ==
    IF ai_analysis.kind = "text" /\ ~JsonLoads(ai_analysis.text).ok
    THEN AgentError("Error formatting questions: " \o ExpectingValue(ai_analysis.text))
    ELSE [kind |-> "dict", mandatory |-> <<>>, field_specific |-> <<>>,
          status |-> "COMPLETED"]

process_research_context(reply) ==
    IF NoResult(reply)
    THEN AgentError("Unable to process research context due to AI service unavailability.")
    ELSE _format_questions(reply)

ReviewReportMessages(reviews) ==
    <<Msg("system",
          "You are an ethics review report generator. Create a comprehensive, \n"
          \o "                    well-formatted report based on the document reviews "
          \o "provided."),
      Msg("user",
          "\n"
          \o "                    Document Reviews:\n"
          \o "                    "
          \o JsonDumpsReviews(reviews)
          \o "\n"
          \o "                    \n"
          \o "                    Generate a comprehensive ethics review report that "
          \o "includes:\n"
          \o "                    1. An executive summary of the overall review status\n"
          \o "                    2. Detailed analysis of each document\n"
          \o "                    3. Identification of any missing elements or issues\n"
          \o "                    4. Specific recommendations for improvement\n"
          \o "                    5. Next steps for the researcher\n"
          \o "                    \n"
          \o "                    Format the report in a professional, well-structured "
          \o "manner.\n"
          \o "                    ")>>

\* the value for a non-empty reviews map; at: the reading of datetime.now()
generate_review_report(reply, at) ==
    IF NoResult(reply)
    THEN AgentError("Report generation unavailable due to AI service error.")
    ELSE [kind |-> "dict", status |-> "COMPLETED", report |-> reply, generated_at |-> at]

\* the value for an empty reviews map, returned before any message is built
NoReviews == AgentError("No reviews available to generate report.")

\* BaseAgent.validate_checklist: responses and documents are the items of the two
\* dicts in insertion order
ValidateChecklistMessages(responses, documents) ==
    <<Msg("system",
          "You are an ethics review assistant validating research ethics applications. \n"
          \o "                    Your role is to ensure all mandatory components are "
          \o "properly addressed and documented."),
      Msg("user",
          "\n"
          \o "                    Review these ethics checklist responses and documents:\n"
          \o "                    \n"
          \o "                    Responses:\n"
          \o "                    "
          \o ReprResponses(responses)
          \o "\n"
          \o "                    \n"
          \o "                    Documents Submitted:\n"
          \o "                    "
          \o ReprDocumentKeys(documents)
          \o "\n"
          \o "                    \n"
          \o "                    Provide a structured analysis including:\n"
          \o "                    1. Completeness of responses\n"
          \o "                    2. Required documentation status\n"
          \o "                    3. Potential issues or concerns\n"
          \o "                    4. Recommendations for improvement\n"
          \o "                    \n"
          \o "                    Focus on:\n"
          \o "                    - Mandatory components (Part A)\n"
          \o "                    - Required documentation\n"
          \o "                    - Consistency of responses\n"
          \o "                    - Compliance with ethics guidelines\n"
          \o "                    ")>>

validate_checklist(reply) ==
    IF NoResult(reply)
    THEN AgentError("Unable to validate checklist due to AI service error.")
    ELSE reply

-----------------------------------------------------------------------------
(* AgentSpec: the agent methods called on an upload, a question and data    *)

AgentQuestions ==
    {"Have you attached the participant consent form?",
     "Response: see Document Content Preview: Consent is voluntary. Please analyze",
     "Describe the research context of the study"}

AgentNames == {"consent_form.pdf", "protocol.docx", "notes.txt"}

ChecklistQuestions == <<"Is informed consent required?", "Participants must be adults">>

DocumentRequirements ==
    [document_type |-> "Consent Form",
     required_elements |-> <<"purpose", "risks">>,
     format_requirements |-> <<"PDF">>]

\* the reviews of a session, the research data entered and the upload at hand
AgentData ==
    {[reviews |-> <<>>, research_data |-> <<>>,
      content |-> [readable |-> FALSE, parts |-> <<>>]]}
    \cup {[reviews |-> reviews,
           research_data |-> <<[key |-> "title", value |-> "Sleep study"]>>,
           content |-> [readable |-> TRUE,
                        parts |-> <<"Consent is voluntary.", "You may withdraw.">>]] :
                reviews \in AgentReviews \ {<<>>}}
    \cup {[reviews |-> <<>>,
           research_data |->
                <<[key |-> "title", value |-> "Sleep study"],
                  [key |-> "summary",
                   value |-> "Ethics Question: none Document Content Preview: x"]>>,
           content |-> [readable |-> TRUE, parts |-> <<>>]]}

AgentInit ==
    /\ messages = <<>>
    /\ retries = 0
    /\ sleeps = <<>>
    /\ pc = "idle"
    /\ handler = ""
    /\ in_question \in AgentQuestions
    /\ in_name \in AgentNames
    /\ in_content = ""
    /\ in_response = ""
    /\ result = None
    /\ previous = None
    /\ called = ""
    /\ in_data \in AgentData
    /\ returned = None
    /\ session = NewSession
    /\ shown = <<>>

\* the method ran to its return: the messages it sent, the engine's branch and
\* answer, and the value the caller gets
Ran(method, msgs, reply, value) ==
    /\ pc' = "done"
    /\ called' = method
    /\ messages' = msgs
    /\ handler' = reply.handler
    /\ result' = reply.value
    /\ returned' = value
    /\ UNCHANGED <<retries, sleeps, in_question, in_name, in_content, in_response, previous,
                   in_data, session, shown>>

ReviewDocument ==
    /\ pc = "idle"
    /\ \E now \in 1..MaxClock,
          msgs \in {ReviewDocumentMessages(in_data.content, in_name, in_question)} :
           \E reply \in {Completion(msgs, now)} :
               Ran("review_document", msgs, reply, review_document(reply.value))

GetDocumentRequirements ==
    /\ pc = "idle"
    /\ \E now \in 1..MaxClock, msgs \in {DocumentRequirementsMessages(in_question)} :
           \E reply \in {Completion(msgs, now)} :
               Ran("get_document_requirements", msgs, reply,
                   get_document_requirements(reply.value))

ValidateDocument ==
    /\ pc = "idle"
    /\ \E now \in 1..MaxClock,
          msgs \in {ValidateDocumentMessages(in_data.content, in_name, DocumentRequirements)} :
           \E reply \in {Completion(msgs, now)} :
               Ran("validate_document", msgs, reply, validate_document(reply.value))

AnalyzeResearchRisks ==
    /\ pc = "idle"
    /\ \E now \in 1..MaxClock, msgs \in {ResearchRisksMessages(in_data.research_data)} :
           \E reply \in {Completion(msgs, now)} :
               Ran("analyze_research_risks", msgs, reply, analyze_research_risks(reply.value))

CheckApplicationCompleteness ==
    /\ pc = "idle"
    /\ \E now \in 1..MaxClock,
          msgs \in {ApplicationCompletenessMessages(in_data.research_data)} :
           \E reply \in {Completion(msgs, now)} :
               Ran("check_application_completeness", msgs, reply,
                   check_application_completeness(reply.value))

ProcessResearchContext ==
    /\ pc = "idle"
    /\ \E now \in 1..MaxClock,
          msgs \in {ResearchContextMessages(in_data.research_data, ChecklistQuestions)} :
           \E reply \in {Completion(msgs, now)} :
               Ran("process_research_context", msgs, reply,
                   process_research_context(reply.value))

GenerateReviewReport ==
    /\ pc = "idle"
    /\ IF in_data.reviews = <<>>
       THEN Ran("generate_review_report", <<>>, [handler |-> "", value |-> None], NoReviews)
       ELSE \E now \in 1..MaxClock, at \in 1..MaxClock,
               msgs \in {ReviewReportMessages(in_data.reviews)} :
               \E reply \in {Completion(msgs, now)} :
                   Ran("generate_review_report", msgs, reply,
                       generate_review_report(reply.value, at))

\* the caller takes the value and calls a method on the same inputs again
AgentAgain ==
    /\ pc = "done"
    /\ pc' = "idle"
    /\ called' = ""
    /\ messages' = <<>>
    /\ handler' = ""
    /\ result' = None
    /\ returned' = None
    /\ UNCHANGED <<retries, sleeps, in_question, in_name, in_content, in_response, previous,
                   in_data, session, shown>>

AgentNext ==
    \/ ReviewDocument
    \/ GetDocumentRequirements
    \/ ValidateDocument
    \/ AnalyzeResearchRisks
    \/ CheckApplicationCompleteness
    \/ ProcessResearchContext
    \/ GenerateReviewReport
    \/ AgentAgain

AgentSpec == AgentInit /\ [][AgentNext]_vars

-----------------------------------------------------------------------------
(* SessionSpec: the Ethics Checklist page and its Save and Continue buttons *)

\* A dict is the sequence of its items in insertion order, each item a record
\* with the key under id.

\* `id in items`
HasKey(items, id) == \E i \in 1..Len(items) : items[i].id = id

\* items[id]
ItemOf(items, id) == items[CHOOSE i \in 1..Len(items) : items[i].id = id]

\* items[item.id] = item: a key the dict has keeps its place
SetItem(items, item) ==
    IF HasKey(items, item.id)
    THEN [i \in 1..Len(items) |-> IF items[i].id = item.id THEN item ELSE items[i]]
    ELSE Append(items, item)

\* items.update(others)
RECURSIVE DictUpdate(_, _)
DictUpdate(items, others) ==
    IF others = <<>> THEN items
    ELSE DictUpdate(SetItem(items, Head(others)), Tail(others))

\* The questions of ETHICS_CHECKLIST, all parts in order, as
\* [id, question, requires_document].  utils/ethics_questions.py is not among the
\* sources, so the checklist is one of two short ones; a question of the second
\* quotes a phrase get_completion looks for.
Checklists ==
    {<<[id |-> "A1", question |-> "Will participants give informed consent?",
        requires_document |-> TRUE],
       [id |-> "B1", question |-> "Does the study involve minors?",
        requires_document |-> FALSE]>>,
     <<[id |-> "A1", question |-> "Will participants give informed consent?",
        requires_document |-> TRUE],
       [id |-> "B1", question |-> "Is a Document Content Preview: shown to participants?",
        requires_document |-> FALSE]>>}

Pages == {"Research Context", "Ethics Checklist", "Review & Submit"}

\* the options of a question's radio; the first is the empty one
Options == <<"", "YES", "NO", "N/A">>

\* what the user picks on a radio
Picks == {"", "YES", "NO"}

\* the file the user uploads and what the library reads from it
UploadName == "consent_form.pdf"
UploadContent == [readable |-> TRUE, parts |-> <<"Consent is voluntary.">>]

\* the widgets before the page was rendered: no radio has a value and no
\* uploader a file
NoWidgets == [response |-> <<"unset", "unset">>, doc |-> <<"", "">>]

\* a notice the page shows
Notice(kind, text) == [kind |-> kind, text |-> text]

AnswerAllQuestions == Notice("error", "Please answer all questions before proceeding.")

\* the test of save_and_continue_ethics on the session's responses
AnyAnswered(checklist, responses) ==
    \E i \in 1..Len(checklist) :
        /\ HasKey(responses, checklist[i].id)
        /\ "answer" \in DOMAIN ItemOf(responses, checklist[i].id)
        /\ ItemOf(responses, checklist[i].id).answer \in {"YES", "NO", "N/A"}

AllAnswered(checklist, responses) ==
    \A i \in 1..Len(checklist) :
        /\ HasKey(responses, checklist[i].id)
        /\ "answer" \in DOMAIN ItemOf(responses, checklist[i].id)
        /\ ItemOf(responses, checklist[i].id).answer \in {"YES", "NO", "N/A"}

SessionInit ==
    /\ messages = <<>>
    /\ retries = 0
    /\ sleeps = <<>>
    /\ pc = "idle"
    /\ handler = ""
    /\ in_question = ""
    /\ in_name = ""
    /\ in_content = ""
    /\ in_response = ""
    /\ result = None
    /\ previous = None
    /\ called = ""
    /\ \E checklist \in Checklists :
        in_data = [checklist |-> checklist, selected_page |-> "Research Context",
                   response |-> NoWidgets.response, doc |-> NoWidgets.doc,
                   clicked |-> "", uploaded_documents |-> <<>>,
                   responses_complete |-> TRUE]
    /\ returned = None
    /\ session = NewSession
    /\ shown = <<>>

engineVars == <<retries, sleeps, in_question, in_name, in_content, in_response, previous>>

\* A run of the script starts: main() takes the page from the sidebar radio and
\* renders it.  The radios and uploaders of the checklist keep their values only
\* while that page is rendered.
Start(widgets) ==
    /\ session' = [session EXCEPT !.current_page = widgets.selected_page]
    /\ in_data' =
        IF widgets.selected_page = "Ethics Checklist"
        THEN [widgets EXCEPT !.uploaded_documents = <<>>, !.responses_complete = TRUE]
        ELSE [widgets EXCEPT !.uploaded_documents = <<>>, !.responses_complete = TRUE,
                             !.response = NoWidgets.response, !.doc = NoWidgets.doc,
                             !.clicked = ""]
    /\ pc' = IF widgets.selected_page = "Ethics Checklist" THEN "top" ELSE "idle"
    /\ shown' = <<>>
    /\ called' = ""
    /\ messages' = <<>>
    /\ handler' = ""
    /\ result' = None
    /\ returned' = None
    /\ UNCHANGED engineVars

\* the user picks a page on the sidebar
SelectPage ==
    /\ pc = "idle"
    /\ \E page \in Pages :
        /\ page # in_data.selected_page
        /\ Start([in_data EXCEPT !.selected_page = page, !.clicked = ""])

OnChecklist == pc = "idle" /\ session.current_page = "Ethics Checklist"

\* the user picks an option on the radio of a question
PickResponse ==
    /\ OnChecklist
    /\ \E i \in 1..Len(in_data.checklist), option \in Picks :
        /\ option # in_data.response[i]
        /\ Start([in_data EXCEPT !.response[i] = option, !.clicked = ""])

\* the user hands a file to the uploader of a question that asks for one
UploadFile ==
    /\ OnChecklist
    /\ \E i \in 1..Len(in_data.checklist) :
        /\ in_data.checklist[i].requires_document
        /\ in_data.doc[i] = ""
        /\ Start([in_data EXCEPT !.doc[i] = UploadName, !.clicked = ""])

ClickTopSaveAndContinue ==
    /\ OnChecklist
    /\ Start([in_data EXCEPT !.clicked = "top_save_continue"])

ClickBottomSaveAndContinue ==
    /\ OnChecklist
    /\ Start([in_data EXCEPT !.clicked = "bottom_save_continue"])

\* save_and_continue_ethics(uploaded_documents, responses_complete), the two
\* arguments after their defaults were filled in; unanswered is the position of
\* the script once the function returns
save_and_continue_ethics(uploaded_documents, responses_complete, unanswered) ==
    /\ called' = "save_and_continue_ethics"
    /\ IF responses_complete
       THEN LET stored == DictUpdate(session.uploaded_documents, uploaded_documents)
            IN  \E now \in 1..MaxClock,
                   msgs \in {ValidateChecklistMessages(session.checklist_responses, stored)} :
                    \E reply \in {Completion(msgs, now)} :
                        \E validation \in {validate_checklist(reply.value)} :
                            /\ messages' = msgs
                            /\ handler' = reply.handler
                            /\ result' = reply.value
                            /\ returned' = validation
                            /\ shown' =
                                shown
                                \o <<Notice("success",
                                            "Ethics checklist completed successfully!")>>
                                \o (IF validation.kind = "text"
                                    THEN <<Notice("info", "AI Review: " \o validation.text)>>
                                    ELSE <<Notice("warning",
                                                  "Unable to perform AI validation. Your "
                                                  \o "responses have been saved and you "
                                                  \o "can proceed.")>>)
                            /\ session' = [session EXCEPT !.uploaded_documents = stored,
                                                          !.current_page = "Review & Submit"]
                            /\ pc' = "rerun"
       ELSE /\ shown' = Append(shown, AnswerAllQuestions)
            /\ pc' = unanswered
            /\ UNCHANGED <<session, messages, handler, result, returned>>
    /\ UNCHANGED in_data
    /\ UNCHANGED engineVars

\* the top button was clicked: save_and_continue_ethics()
SaveAndContinueTop ==
    /\ pc = "top"
    /\ in_data.clicked = "top_save_continue"
    /\ save_and_continue_ethics(session.uploaded_documents,
                                AllAnswered(in_data.checklist, session.checklist_responses),
                                "questions")

\* the top button was not clicked
PassTopButton ==
    /\ pc = "top"
    /\ in_data.clicked # "top_save_continue"
    /\ pc' = "questions"
    /\ UNCHANGED <<messages, handler, result, called, in_data, returned, session, shown>>
    /\ UNCHANGED engineVars

\* the value of a question's radio: the option picked, or on the first run of
\* the page the answer the session holds
RadioValue(response, responses, q) ==
    IF response # "unset" THEN response
    ELSE IF HasKey(responses, q.id)
    THEN IF "answer" \in DOMAIN ItemOf(responses, q.id)
         THEN ItemOf(responses, q.id).answer
         ELSE ""
    ELSE ""

\* the loop over the questions from question i on.  run: the widgets read so far,
\* the session's responses, the documents and the flag of this run, the notices.
RECURSIVE RenderQuestions(_, _, _, _)
RenderQuestions(i, checklist, run, now) ==
    IF i > Len(checklist) THEN run
    ELSE
    LET q == checklist[i]
        response == RadioValue(run.response[i], run.checklist_responses, q)
        checklist_responses ==
            IF response # ""
            THEN SetItem(run.checklist_responses,
                         [id |-> q.id, question |-> q.question, answer |-> response])
            ELSE IF HasKey(run.checklist_responses, q.id)
            THEN SetItem(run.checklist_responses,
                         [id |-> q.id,
                          question |-> ItemOf(run.checklist_responses, q.id).question])
            ELSE run.checklist_responses
        review_result ==
            review_document(
                Completion(ReviewDocumentMessages(UploadContent, run.doc[i], q.question),
                           now).value)
        reviewed == q.requires_document /\ run.doc[i] # ""
        failed == IF reviewed THEN review_result.status = "ERROR" ELSE FALSE
    IN  RenderQuestions(i + 1, checklist,
            [response |-> [run.response EXCEPT ![i] = response],
             doc |-> run.doc,
             checklist_responses |-> checklist_responses,
             responses_complete |-> run.responses_complete /\ response # "",
             uploaded_documents |->
                IF ~reviewed THEN run.uploaded_documents
                ELSE IF failed
                THEN SetItem(run.uploaded_documents,
                             [id |-> q.id, name |-> run.doc[i], type |-> "Document"])
                ELSE SetItem(run.uploaded_documents,
                             [id |-> q.id, name |-> run.doc[i], type |-> "Document",
                              review |-> review_result]),
             shown |-> IF failed
                       THEN Append(run.shown, Notice("error", review_result.message))
                       ELSE run.shown],
            now)

\* render_ethics_checklist between its two buttons
RenderChecklist ==
    /\ pc = "questions"
    /\ \E now \in 1..MaxClock :
        \E run \in {RenderQuestions(1, in_data.checklist,
                        [response |-> in_data.response, doc |-> in_data.doc,
                         checklist_responses |-> session.checklist_responses,
                         responses_complete |-> TRUE, uploaded_documents |-> <<>>,
                         shown |-> shown],
                        now)} :
            /\ session' = [session EXCEPT !.checklist_responses = run.checklist_responses]
            /\ in_data' = [in_data EXCEPT !.response = run.response,
                                          !.uploaded_documents = run.uploaded_documents,
                                          !.responses_complete = run.responses_complete]
            /\ shown' = run.shown
    /\ pc' = "bottom"
    /\ UNCHANGED <<messages, handler, result, called, returned>>
    /\ UNCHANGED engineVars

\* the bottom button was clicked:
\* save_and_continue_ethics(uploaded_documents, responses_complete)
SaveAndContinueBottom ==
    /\ pc = "bottom"
    /\ in_data.clicked = "bottom_save_continue"
    /\ save_and_continue_ethics(in_data.uploaded_documents, in_data.responses_complete,
                                "idle")

\* the bottom button was not clicked: the run of the script ends
PassBottomButton ==
    /\ pc = "bottom"
    /\ in_data.clicked # "bottom_save_continue"
    /\ pc' = "idle"
    /\ UNCHANGED <<messages, handler, result, called, in_data, returned, session, shown>>
    /\ UNCHANGED engineVars

\* st.rerun(): the script runs again with the widgets as they are; a button
\* counts as clicked in one run only
Rerun ==
    /\ pc = "rerun"
    /\ Start([in_data EXCEPT !.clicked = ""])

SessionNext ==
    \/ SelectPage
    \/ PickResponse
    \/ UploadFile
    \/ ClickTopSaveAndContinue
    \/ ClickBottomSaveAndContinue
    \/ SaveAndContinueTop
    \/ PassTopButton
    \/ RenderChecklist
    \/ SaveAndContinueBottom
    \/ PassBottomButton
    \/ Rerun

SessionSpec == SessionInit /\ [][SessionNext]_vars

-----------------------------------------------------------------------------
(* What the agent methods return on the engine's answer                    *)

\* the methods whose callers expect a parsed object
StructuredMethods ==
    {"review_document", "get_document_requirements", "validate_document",
     "analyze_research_risks", "check_application_completeness",
     "process_research_context"}

\* a method returned after the engine answered with a text json.loads rejects
ReturnedOnUnparsedText ==
    /\ pc = "done"
    /\ called \in StructuredMethods
    /\ result.kind = "text"
    /\ ~JsonLoads(result.text).ok

\* C26: a method that expects structured output and gets text that does not
\* parse returns a result of status ERROR, never COMPLETED.
C26_UnparsedTextIsAnError ==
    ReturnedOnUnparsedText => returned.status = "ERROR"

\* a method returned after the engine answered with an ERROR object
ReturnedOnEngineError ==
    /\ pc = "done"
    /\ called # ""
    /\ result.kind = "error"

\* C27: when the engine returns an ERROR object, the method that called it
\* returns a result of status ERROR.
C27_EngineErrorStaysAnError ==
    ReturnedOnEngineError => returned.status = "ERROR"

\* C28: generate_review_report returns ERROR without a call to the engine for an
\* empty reviews map; for any other map it returns COMPLETED with the text of the
\* composed report in the report field.
C28_ReportFieldIsTheReportText ==
    (pc = "done" /\ called = "generate_review_report") =>
        IF in_data.reviews = <<>>
        THEN returned.status = "ERROR" /\ messages = <<>> /\ result = None
        ELSE /\ returned.status = "COMPLETED"
             /\ result.kind = "report" => returned.report = Text(result.report)

-----------------------------------------------------------------------------
(* What save_and_continue_ethics does to the session                       *)

\* the script stands at a call of save_and_continue_ethics
Saving ==
    \/ pc = "top" /\ in_data.clicked = "top_save_continue"
    \/ pc = "bottom" /\ in_data.clicked = "bottom_save_continue"

\* the documents the call is given: the session's own at the top button, those
\* of this run of the page at the bottom button
DocumentsGiven ==
    IF pc = "top" THEN session.uploaded_documents ELSE in_data.uploaded_documents

\* the session holds an answer YES, NO or N/A to every question of the checklist
ChecklistAnswered ==
    \A i \in 1..Len(in_data.checklist) :
        \E j \in 1..Len(session.checklist_responses) :
            LET entry == session.checklist_responses[j]
            IN  /\ entry.id = in_data.checklist[i].id
                /\ IF "answer" \in DOMAIN entry THEN entry.answer \in {"YES", "NO", "N/A"}
                   ELSE FALSE

\* after holds every document given and, under the other keys, what before held
Merged(before, given, after) ==
    /\ \A i \in 1..Len(given) : \E j \in 1..Len(after) : after[j] = given[i]
    /\ \A i \in 1..Len(before) :
        \/ \E j \in 1..Len(given) : given[j].id = before[i].id
        \/ \E j \in 1..Len(after) : after[j] = before[i]
    /\ \A j \in 1..Len(after) :
        \/ \E i \in 1..Len(given) : given[i] = after[j]
        \/ \E i \in 1..Len(before) : before[i] = after[j]
    /\ \A j, k \in 1..Len(after) : after[j].id = after[k].id => j = k

=============================================================================
